---- MODULE Spec2Model ----
(***************************************************************************)
(* A model of the fast_file_finder prototype (prototype/python): the       *)
(* query parser, matcher and ranker of search.py, and the manifest reader, *)
(* tree walker and index builder of indexer.py.                            *)
(*                                                                         *)
(* A Python str is a sequence of one-character strings; for search.py a    *)
(* Path is the sequence of characters of str(path), for indexer.py the     *)
(* sequence of its names.  A float score is the exact rational [n, d]      *)
(* (n / d) it rounds.  A local variable of the code that is read more than *)
(* once is a parameter of a helper operator.  A function that can raise    *)
(* returns a record whose field `raised` names the exception.              *)
(***************************************************************************)
EXTENDS Integers, Sequences, FiniteSets, TLC

VARIABLES
    entries,      \* the entry list the caller holds and passes to search_entries
    rapidfuzz,    \* whether `from rapidfuzz import fuzz, process` succeeded
    wseed,        \* which scorer the imported rapidfuzz build provides
    query,        \* argument `query` of the latest search_entries call
    limit,        \* argument `limit` of the latest call
    use_regex,    \* argument `use_regex` of the latest call
    result,       \* the list the latest call returned (<<>> when it raised)
    raised,       \* the exception the latest call raised, "none" when it returned
    ncalls,       \* number of search_entries calls made so far
    first,        \* the first call: the list it was given, its arguments, its outcome
    varied,       \* whether a call with other arguments followed the first call
    fs,           \* the filesystem: the node at each path that exists
    platform,     \* what the interpreter and the OS leave open: listing order, loop errors
    ixcall,       \* the latest indexer call and its arguments
    ixout,        \* the outcome of the latest indexer call
    walk,         \* the local variables of the _walk in progress
    win,          \* the main window of the GUI: its attributes and widgets
    observed,     \* what an observer of the window has seen its handlers do
    dispatch,     \* the latest execute_or_open call: its path, the platform, what it did
    marks         \* the latest _find_match_positions call: text, term, positions

vars == <<entries, rapidfuzz, wseed, query, limit, use_regex, result, raised,
          ncalls, first, varied, fs, platform, ixcall, ixout, walk, win, observed,
          dispatch, marks>>

(***************************************************************************)
(* Python str methods                                                      *)
(***************************************************************************)

\* str.lower() on one character (the alphabet has the capitals A and B)
Lower(c) ==
    CASE c = "A" -> "a" [] c = "B" -> "b" [] c = "F" -> "f" [] c = "L" -> "l" [] OTHER -> c

\* the capital I with a dot above, U+0130, is the one character of the
\* alphabet whose lowercase is two characters: i and the combining dot U+0307
DottedCapital == "U+0130"

RECURSIVE LowerFrom(_)
LowerFrom(s) ==
    IF s = <<>> THEN <<>>
    ELSE (IF Head(s) = DottedCapital THEN <<"i", "U+0307">> ELSE <<Lower(Head(s))>>)
         \o LowerFrom(Tail(s))

lower(s) ==
    IF \A i \in 1..Len(s) : s[i] # DottedCapital THEN [i \in 1..Len(s) |-> Lower(s[i])]
    ELSE LowerFrom(s)

\* str.isspace() on one character
IsSpace(c) == c \in {" ", "\t"}

RECURSIVE lstrip(_)
lstrip(s) == IF s # <<>> /\ IsSpace(Head(s)) THEN lstrip(Tail(s)) ELSE s

RECURSIVE rstrip(_)
rstrip(s) ==
    IF s # <<>> /\ IsSpace(s[Len(s)]) THEN rstrip(SubSeq(s, 1, Len(s) - 1)) ELSE s

\* a strip that leaves the whitespace in place
strip_nothing(s) == s

strip(s) == rstrip(lstrip(s))

\* str.split() without argument: the maximal runs of non-whitespace characters
RECURSIVE SplitFrom(_, _, _)
SplitFrom(s, word, acc) ==
    IF s = <<>> THEN (IF word = <<>> THEN acc ELSE Append(acc, word))
    ELSE IF IsSpace(Head(s))
         THEN SplitFrom(Tail(s), <<>>, IF word = <<>> THEN acc ELSE Append(acc, word))
         ELSE SplitFrom(Tail(s), Append(word, Head(s)), acc)

split(s) == SplitFrom(s, <<>>, <<>>)

startswith(s, p) == Len(p) <= Len(s) /\ SubSeq(s, 1, Len(p)) = p

endswith(s, p) == Len(p) <= Len(s) /\ SubSeq(s, Len(s) - Len(p) + 1, Len(s)) = p

\* the Python expression `p in s`
contains(s, p) == \E i \in 0..(Len(s) - Len(p)) : SubSeq(s, i + 1, i + Len(p)) = p

\* " ".join(terms)
RECURSIVE join(_)
join(terms) ==
    IF terms = <<>> THEN <<>>
    ELSE IF Len(terms) = 1 THEN terms[1]
    ELSE terms[1] \o <<" ">> \o join(Tail(terms))

\* index of the last "/" of the path at or before i, 0 when there is none
RECURSIVE LastSlash(_, _)
LastSlash(path, i) ==
    IF i = 0 THEN 0 ELSE IF path[i] = "/" THEN i ELSE LastSlash(path, i - 1)

\* Path.name: the final component of the path
PathName(path) == SubSeq(path, LastSlash(path, Len(path)) + 1, Len(path))

(***************************************************************************)
(* search.py: query parser                                                 *)
(***************************************************************************)

\* the loop body of _parse_query: the token goes to one of the three lists
ParseToken(token, spec) ==
    IF startswith(token, <<"'">>) /\ Len(token) > 1
    THEN [spec EXCEPT !.exact_terms = Append(@, Tail(token))]
    ELSE IF startswith(token, <<"!">>) /\ Len(token) > 1
    THEN [spec EXCEPT !.exclude_terms = Append(@, Tail(token))]
    ELSE [spec EXCEPT !.include_terms = Append(@, token)]

RECURSIVE ParseTokens(_, _)
ParseTokens(tokens, spec) ==
    IF tokens = <<>> THEN spec
    ELSE ParseTokens(Tail(tokens), ParseToken(Head(tokens), spec))

_parse_query(q) ==
    ParseTokens(split(q),
                [include_terms |-> <<>>, exact_terms |-> <<>>, exclude_terms |-> <<>>])

(***************************************************************************)
(* search.py: literal matchers                                             *)
(***************************************************************************)

RECURSIVE SubseqFrom(_, _, _)
SubseqFrom(q, text, qi) ==
    IF text = <<>> THEN qi = Len(q)
    ELSE SubseqFrom(q, Tail(text),
                    IF qi < Len(q) /\ Head(text) = q[qi + 1] THEN qi + 1 ELSE qi)

_is_subsequence(q, text) == SubseqFrom(q, text, 0)

\* `q in t or _is_subsequence(q, t)` on the lowered strings
FuzzyLowered(q, t) == contains(t, q) \/ _is_subsequence(q, t)

_is_fuzzy_match(q, text) == FuzzyLowered(lower(q), lower(text))

\* the term without its leading "^" and its trailing "$"
AnchorCore(term, anchored_start, anchored_end) ==
    SubSeq(term, IF anchored_start THEN 2 ELSE 1,
           IF anchored_end THEN Len(term) - 1 ELSE Len(term))

\* a decision whose end anchor accepts the core anywhere in the text
AnchoredEndAnywhere(anchored_start, anchored_end, core, text) ==
    IF core = <<>> THEN FALSE
    ELSE IF anchored_start /\ anchored_end THEN text = core
    ELSE IF anchored_start THEN startswith(text, core)
    ELSE contains(text, core)

\* the decision of _matches_anchored_literal once the anchors are stripped
AnchoredDecision(anchored_start, anchored_end, core, text) ==
    IF core = <<>> THEN FALSE
    ELSE IF anchored_start /\ anchored_end THEN text = core
    ELSE IF anchored_start THEN startswith(text, core)
    ELSE IF anchored_end THEN endswith(text, core)
    ELSE contains(text, core)

_matches_anchored_literal(term, text) ==
    AnchoredDecision(startswith(term, <<"^">>), endswith(term, <<"$">>),
                     AnchorCore(term, startswith(term, <<"^">>), endswith(term, <<"$">>)),
                     text)

\* `_matches_anchored_literal(t, name) or _matches_anchored_literal(t, full)`
AnchoredEither(t, name, full) ==
    _matches_anchored_literal(t, name) \/ _matches_anchored_literal(t, full)

_matches_exact_term(term, name, full) == AnchoredEither(lower(term), name, full)

\* an exclusion that looks at the basename only
ExclusionOnNameOnly(term, name, full) == _matches_anchored_literal(lower(term), name)

_matches_exclusion_term(term, name, full) == AnchoredEither(lower(term), name, full)

(***************************************************************************)
(* re.compile(term, re.IGNORECASE) and pattern.search(text), for patterns  *)
(* over literals, ".", "*", "^", "$", "(", "{", "}" and digits.            *)
(***************************************************************************)

Digits == {"0", "1", "2", "3", "4", "5", "6", "7", "8", "9"}

DigitVal(c) ==
    CASE c = "0" -> 0 [] c = "1" -> 1 [] c = "2" -> 2 [] c = "3" -> 3 [] c = "4" -> 4
      [] c = "5" -> 5 [] c = "6" -> 6 [] c = "7" -> 7 [] c = "8" -> 8 [] c = "9" -> 9

\* sre's MAXREPEAT, 4294967295, as its decimal digits
MAXREPEAT == <<"4", "2", "9", "4", "9", "6", "7", "2", "9", "5">>

RECURSIVE StripZeros(_)
StripZeros(ds) == IF ds # <<>> /\ Head(ds) = "0" THEN StripZeros(Tail(ds)) ELSE ds

\* lexicographic >= on digit strings of equal length
RECURSIVE DigitsGe(_, _)
DigitsGe(x, y) ==
    IF x = <<>> THEN TRUE
    ELSE IF Head(x) # Head(y) THEN DigitVal(Head(x)) > DigitVal(Head(y))
    ELSE DigitsGe(Tail(x), Tail(y))

\* x >= MAXREPEAT for a digit string x without leading zeros
GeMaxStripped(x) ==
    Len(x) > Len(MAXREPEAT) \/ (Len(x) = Len(MAXREPEAT) /\ DigitsGe(x, MAXREPEAT))

\* int(lo) >= MAXREPEAT
GeMaxRepeat(ds) == GeMaxStripped(StripZeros(ds))

RECURSIVE DigitsInt(_, _)
DigitsInt(ds, acc) ==
    IF ds = <<>> THEN acc ELSE DigitsInt(Tail(ds), 10 * acc + DigitVal(Head(ds)))

\* int(x) below MAXREPEAT; a count of four digits or more is kept as 1000,
\* which no text of the model is long enough to tell from the number itself
CountStripped(x) == IF Len(x) > 3 THEN 1000 ELSE DigitsInt(x, 0)

RepeatCount(ds) == CountStripped(StripZeros(ds))

\* first index >= i of p that holds no digit
RECURSIVE DigitsEnd(_, _)
DigitsEnd(p, i) == IF i <= Len(p) /\ p[i] \in Digits THEN DigitsEnd(p, i + 1) ELSE i

\* the upper count of an unbounded repeat
Unbounded == 0 - 1

ReItem(op, c) == [op |-> op, c |-> c, rep |-> FALSE, lo |-> 0, hi |-> 0]

\* the parser after a step: the next position, the open groups, the items
ReState(status, i, depth, items) ==
    [status |-> status, i |-> i, depth |-> depth, items |-> items]

\* a repeat code applied to the last item of the subpattern
ReRepeat(items, lo, hi, i, depth) ==
    IF items = <<>> \/ items[Len(items)].op \in {"bol", "eol"}
    THEN ReState("error", i, depth, <<>>)                     \* nothing to repeat
    ELSE IF items[Len(items)].rep
    THEN ReState("error", i, depth, <<>>)                     \* multiple repeat
    ELSE ReState("ok", i, depth,
                 [items EXCEPT ![Len(items)] = [@ EXCEPT !.rep = TRUE, !.lo = lo, !.hi = hi]])

\* "{" at p[i], the digits after it ending before p[j]
ReBrace(p, i, j, items, depth) ==
    IF ~(j <= Len(p) /\ p[j] = "}") \/ j = i + 1
    THEN ReState("ok", i + 1, depth, Append(items, ReItem("lit", "{")))
    ELSE IF GeMaxRepeat(SubSeq(p, i + 1, j - 1))
    THEN ReState("OverflowError", j + 1, depth, <<>>)
    ELSE ReRepeat(items, RepeatCount(SubSeq(p, i + 1, j - 1)),
                  RepeatCount(SubSeq(p, i + 1, j - 1)), j + 1, depth)

\* one step of sre_parse at the character c = p[i]
ReStep(p, i, c, items, depth) ==
    CASE c = "(" -> ReState("ok", i + 1, depth + 1, <<>>)
      [] c = "*" -> ReRepeat(items, 0, Unbounded, i + 1, depth)
      [] c = "{" -> ReBrace(p, i, DigitsEnd(p, i + 1), items, depth)
      [] c = "^" -> ReState("ok", i + 1, depth, Append(items, ReItem("bol", c)))
      [] c = "$" -> ReState("ok", i + 1, depth, Append(items, ReItem("eol", c)))
      [] c = "." -> ReState("ok", i + 1, depth, Append(items, ReItem("any", c)))
      [] OTHER -> ReState("ok", i + 1, depth, Append(items, ReItem("lit", c)))

\* sre_parse, left to right, from the parser state st
RECURSIVE ReParse(_, _)
ReParse(p, st) ==
    IF st.status # "ok" THEN [status |-> st.status, items |-> <<>>]
    ELSE IF st.i > Len(p)
    THEN IF st.depth > 0 THEN [status |-> "error", items |-> <<>>]  \* missing )
         ELSE [status |-> "ok", items |-> st.items]
    ELSE ReParse(p, ReStep(p, st.i, p[st.i], st.items, st.depth))

re_compile(term) == ReParse(term, ReState("ok", 1, 0, <<>>))

\* one character against a "lit" or "any" item, under re.IGNORECASE
ReCharOk(item, ch) ==
    IF item.op = "any" THEN ch # "\n" ELSE Lower(item.c) = Lower(ch)

\* the items from k on match text at position pos (1-based)
RECURSIVE ReMatchAt(_, _, _, _)
RECURSIVE ReMatchItem(_, _, _, _, _)
ReMatchItem(it, items, k, text, pos) ==
    IF it.rep
    THEN \E n \in it.lo..(Len(text) - pos + 1) :
            /\ (it.hi = Unbounded \/ n <= it.hi)
            /\ \A d \in 0..(n - 1) : ReCharOk(it, text[pos + d])
            /\ ReMatchAt(items, k + 1, text, pos + n)
    ELSE IF it.op = "bol" THEN pos = 1 /\ ReMatchAt(items, k + 1, text, pos)
    ELSE IF it.op = "eol" THEN pos = Len(text) + 1 /\ ReMatchAt(items, k + 1, text, pos)
    ELSE /\ pos <= Len(text)
         /\ ReCharOk(it, text[pos])
         /\ ReMatchAt(items, k + 1, text, pos + 1)

ReMatchAt(items, k, text, pos) ==
    IF k > Len(items) THEN TRUE ELSE ReMatchItem(items[k], items, k, text, pos)

pattern_search(items, text) == \E pos \in 1..(Len(text) + 1) : ReMatchAt(items, 1, text, pos)

(***************************************************************************)
(* search.py: include terms and the filter                                 *)
(***************************************************************************)

\* whether evaluating the include term raises instead of returning
IncludeTermRaises(term, regex) == regex /\ re_compile(term).status = "OverflowError"

\* the regex branch, the pattern compiled or not
RegexDecision(pattern, name, full) ==
    IF pattern.status # "ok" THEN FALSE
    ELSE pattern_search(pattern.items, name) \/ pattern_search(pattern.items, full)

\* a non-regex branch whose anchors ask for the whole core at the start and the end
IncludeHardAnchors(anchored_start, anchored_end, core, name, full) ==
    IF core = <<>> THEN FALSE
    ELSE IF anchored_start /\ ~(startswith(name, core) \/ startswith(full, core))
    THEN FALSE
    ELSE IF anchored_end /\ ~(endswith(name, core) \/ endswith(full, core))
    THEN FALSE
    ELSE _is_fuzzy_match(core, name) \/ _is_fuzzy_match(core, full)

\* the non-regex branch once the anchors are stripped
IncludeDecision(anchored_start, anchored_end, core, name, full) ==
    IF core = <<>> THEN FALSE
    ELSE IF anchored_start
            /\ ~(startswith(name, <<core[1]>>) \/ startswith(full, <<core[1]>>))
    THEN FALSE
    ELSE IF anchored_end
            /\ ~(endswith(name, <<core[Len(core)]>>) \/ endswith(full, <<core[Len(core)]>>))
    THEN FALSE
    ELSE _is_fuzzy_match(core, name) \/ _is_fuzzy_match(core, full)

IncludeLowered(t, name, full) ==
    IncludeDecision(startswith(t, <<"^">>), endswith(t, <<"$">>),
                    AnchorCore(t, startswith(t, <<"^">>), endswith(t, <<"$">>)),
                    name, full)

_matches_include_term(term, name, full, regex) ==
    IF regex THEN RegexDecision(re_compile(term), name, full)
    ELSE IncludeLowered(lower(term), name, full)

\* the include loop of _matches_spec: "True", "False", or the exception raised
RECURSIVE IncludeLoop(_, _, _, _)
IncludeLoop(terms, name, full, regex) ==
    IF terms = <<>> THEN "True"
    ELSE IF IncludeTermRaises(Head(terms), regex) THEN "OverflowError"
    ELSE IF ~_matches_include_term(Head(terms), name, full, regex) THEN "False"
    ELSE IncludeLoop(Tail(terms), name, full, regex)

\* loops in which one matching exact term is enough
MatchesAnyExact(spec, name, full, regex) ==
    IF \E i \in 1..Len(spec.exclude_terms) :
          _matches_exclusion_term(spec.exclude_terms[i], name, full)
    THEN "False"
    ELSE IF /\ spec.exact_terms # <<>>
            /\ \A i \in 1..Len(spec.exact_terms) :
                  ~_matches_exact_term(spec.exact_terms[i], name, full)
    THEN "False"
    ELSE IncludeLoop(spec.include_terms, name, full, regex)

\* the three loops of _matches_spec on the lowered name and path
MatchesLowered(spec, name, full, regex) ==
    IF \E i \in 1..Len(spec.exclude_terms) :
          _matches_exclusion_term(spec.exclude_terms[i], name, full)
    THEN "False"
    ELSE IF \E i \in 1..Len(spec.exact_terms) :
              ~_matches_exact_term(spec.exact_terms[i], name, full)
    THEN "False"
    ELSE IncludeLoop(spec.include_terms, name, full, regex)

_matches_spec(spec, path, regex) ==
    MatchesLowered(spec, lower(PathName(path)), lower(path), regex)

(***************************************************************************)
(* search.py: scores                                                       *)
(***************************************************************************)

SubstringBonus == 25
PrefixBonus == 30
NameBoost == 1000
FullBoost == 900
ExactBoost == 800

\* length of the common run of a from i and b from j, within a[..ahi], b[..bhi]
RECURSIVE RunLen(_, _, _, _, _, _)
RunLen(a, b, i, j, ahi, bhi) ==
    IF i <= ahi /\ j <= bhi /\ a[i] = b[j] THEN 1 + RunLen(a, b, i + 1, j + 1, ahi, bhi)
    ELSE 0

\* some block of length k starts at a[i]
RunAtRow(a, b, i, ahi, blo, bhi, k) ==
    \E j \in blo..bhi : RunLen(a, b, i, j, ahi, bhi) >= k

\* the earliest block of length k that starts at a[i]
BlockInRow(a, b, i, ahi, blo, bhi, k) ==
    [i |-> i, k |-> k,
     j |-> CHOOSE j \in blo..bhi :
              /\ RunLen(a, b, i, j, ahi, bhi) >= k
              /\ \A j2 \in blo..(j - 1) : RunLen(a, b, i, j2, ahi, bhi) < k]

\* the block of length k earliest in a, then earliest in b
BlockOf(a, b, alo, ahi, blo, bhi, k) ==
    BlockInRow(a, b,
               CHOOSE i \in alo..ahi :
                  /\ RunAtRow(a, b, i, ahi, blo, bhi, k)
                  /\ \A i2 \in alo..(i - 1) : ~RunAtRow(a, b, i2, ahi, blo, bhi, k),
               ahi, blo, bhi, k)

\* the longest block of length at most k
RECURSIVE LongestUpTo(_, _, _, _, _, _, _)
LongestUpTo(a, b, alo, ahi, blo, bhi, k) ==
    IF k <= 0 THEN [i |-> alo, j |-> blo, k |-> 0]
    ELSE IF \E i \in alo..ahi : RunAtRow(a, b, i, ahi, blo, bhi, k)
    THEN BlockOf(a, b, alo, ahi, blo, bhi, k)
    ELSE LongestUpTo(a, b, alo, ahi, blo, bhi, k - 1)

\* SequenceMatcher.find_longest_match without junk, on a[alo..ahi] and b[blo..bhi]
\* (1-based, inclusive): the longest block, earliest in a, then earliest in b
find_longest_match(a, b, alo, ahi, blo, bhi) ==
    LongestUpTo(a, b, alo, ahi, blo, bhi, ahi - alo + 1)

\* sum of the sizes of SequenceMatcher.get_matching_blocks(): the longest block m,
\* then the blocks to its left and to its right
RECURSIVE MatchCount(_, _, _, _, _, _)
RECURSIVE MatchSplit(_, _, _, _, _, _, _)
MatchSplit(a, b, alo, ahi, blo, bhi, m) ==
    IF m.k = 0 THEN 0
    ELSE m.k
         + (IF alo < m.i /\ blo < m.j
            THEN MatchCount(a, b, alo, m.i - 1, blo, m.j - 1) ELSE 0)
         + (IF m.i + m.k <= ahi /\ m.j + m.k <= bhi
            THEN MatchCount(a, b, m.i + m.k, ahi, m.j + m.k, bhi) ELSE 0)

MatchCount(a, b, alo, ahi, blo, bhi) ==
    MatchSplit(a, b, alo, ahi, blo, bhi, find_longest_match(a, b, alo, ahi, blo, bhi))

\* SequenceMatcher(None, a, b).ratio() * 100.0, as a fraction
Ratio100(a, b) ==
    IF Len(a) + Len(b) = 0 THEN [n |-> 100, d |-> 1]
    ELSE [n |-> 200 * MatchCount(a, b, 1, Len(a), 1, Len(b)), d |-> Len(a) + Len(b)]

ScoreAdd(score, points) == [n |-> score.n + points * score.d, d |-> score.d]

ScoreLt(x, y) == x.n * y.d < y.n * x.d

\* the two bonuses of _score on the lowered strings
ScoreLowered(q, t) ==
    ScoreAdd(Ratio100(q, t),
             (IF contains(t, q) THEN SubstringBonus ELSE 0)
             + (IF startswith(t, q) THEN PrefixBonus ELSE 0))

_score(q, text) == ScoreLowered(lower(q), lower(text))

\* fuzz.WRatio of the imported rapidfuzz, which is no part of this repository:
\* a deterministic score in 0..100, one stand-in per seed
WRatio(seed, q, text) ==
    IF seed = 0
    THEN 20 * Cardinality({i \in 1..Len(text) : i <= 5 /\ \E k \in 1..Len(q) : q[k] = Lower(text[i])})
    ELSE IF 15 * Len(text) > 100 THEN 0 ELSE 100 - 15 * Len(text)

\* an insertion that puts the element before the elements of equal score
RECURSIVE InsertBeforeEqual(_, _)
InsertBeforeEqual(s, e) ==
    IF s = <<>> THEN <<e>>
    ELSE IF ~ScoreLt(e.score, Head(s).score) THEN <<e>> \o s
    ELSE <<Head(s)>> \o InsertBeforeEqual(Tail(s), e)

\* list.sort(key=score, reverse=True): stable, equal scores keep their order
RECURSIVE InsertDesc(_, _)
InsertDesc(s, e) ==
    IF s = <<>> THEN <<e>>
    ELSE IF ScoreLt(Head(s).score, e.score) THEN <<e>> \o s
    ELSE <<Head(s)>> \o InsertDesc(Tail(s), e)

RECURSIVE SortFrom(_, _)
SortFrom(s, acc) == IF s = <<>> THEN acc ELSE SortFrom(Tail(s), InsertDesc(acc, Head(s)))

sort_reverse(s) == SortFrom(s, <<>>)

\* process.extract(q, keys, scorer=fuzz.WRatio, limit=None): every choice with
\* its score, best first, equal scores in the order of the choices
extract(seed, q, keys) ==
    sort_reverse([i \in 1..Len(keys) |->
                    [path |-> keys[i], score |-> [n |-> WRatio(seed, q, keys[i]), d |-> 1]]])

(***************************************************************************)
(* search.py: search_entries                                               *)
(***************************************************************************)

Returned(value) == [raised |-> "none", value |-> value]

\* [path for path in entries if _matches_spec(...)], or the exception raised
RECURSIVE FilterFrom(_, _, _, _)
RECURSIVE FilterStep(_, _, _, _, _)
FilterStep(spec, es, regex, acc, m) ==
    IF m = "OverflowError" THEN [raised |-> m, value |-> <<>>]
    ELSE FilterFrom(spec, Tail(es), regex, IF m = "True" THEN Append(acc, Head(es)) ELSE acc)

FilterFrom(spec, es, regex, acc) ==
    IF es = <<>> THEN Returned(acc)
    ELSE FilterStep(spec, es, regex, acc, _matches_spec(spec, Head(es), regex))

\* keys of {str(entry): entry for entry in filtered}: first occurrences, in order
RECURSIVE DictKeys(_, _)
DictKeys(s, acc) ==
    IF s = <<>> THEN acc
    ELSE DictKeys(Tail(s),
                  IF \E i \in 1..Len(acc) : acc[i] = Head(s) THEN acc
                  ELSE Append(acc, Head(s)))

\* the score query: the joined include terms q, else the first exact term
ScoreQueryFrom(q, spec) ==
    IF q = <<>> /\ spec.exact_terms # <<>> THEN lower(spec.exact_terms[1]) ELSE q

ScoreQuery(spec) == ScoreQueryFrom(lower(join(spec.include_terms)), spec)

\* the boost stage for one scored entry, on its lowered name and path
\* a boost stage that leaves out the boost for the basename
BoostWithoutName(spec, q, item, name, full) ==
    [path |-> item.path,
     score |-> ScoreAdd(item.score,
                 (IF q # <<>> /\ full = q THEN FullBoost ELSE 0)
                 + ExactBoost * Cardinality({i \in 1..Len(spec.exact_terms) :
                       _matches_exact_term(spec.exact_terms[i], name, full)}))]

\* a boost stage that adds the boost of the exact terms once, however many match
BoostExactOnce(spec, q, item, name, full) ==
    [path |-> item.path,
     score |-> ScoreAdd(item.score,
                 (IF q # <<>> /\ name = q THEN NameBoost
                  ELSE IF q # <<>> /\ full = q THEN FullBoost
                  ELSE 0)
                 + (IF \E i \in 1..Len(spec.exact_terms) :
                          _matches_exact_term(spec.exact_terms[i], name, full)
                    THEN ExactBoost ELSE 0))]

BoostLowered(spec, q, item, name, full) ==
    [path |-> item.path,
     score |-> ScoreAdd(item.score,
                 (IF q # <<>> /\ name = q THEN NameBoost
                  ELSE IF q # <<>> /\ full = q THEN FullBoost
                  ELSE 0)
                 + ExactBoost * Cardinality({i \in 1..Len(spec.exact_terms) :
                       _matches_exact_term(spec.exact_terms[i], name, full)}))]

Boost(spec, q, item) ==
    BoostLowered(spec, q, item, lower(PathName(item.path)), lower(item.path))

\* a slice that keeps one element more
TruncateOneMore(scored, lim) ==
    SubSeq(scored, 1, IF lim + 1 < Len(scored) THEN lim + 1 ELSE Len(scored))

\* scored[:limit], for limit > 0
Truncate(scored, lim) == SubSeq(scored, 1, IF lim < Len(scored) THEN lim ELSE Len(scored))

\* the scorer branch
Scored(q, keys, rf, seed) ==
    IF rf /\ q # <<>> THEN extract(seed, q, keys)
    ELSE [i \in 1..Len(keys) |->
            [path |-> keys[i],
             score |-> _score(IF q # <<>> THEN q ELSE keys[i], keys[i])]]

Boosted(spec, q, scored) == [i \in 1..Len(scored) |-> Boost(spec, q, scored[i])]

\* search_entries from the scorer on
Ranked(spec, q, keys, lim, rf, seed) ==
    Returned(Truncate(sort_reverse(Boosted(spec, q, Scored(q, keys, rf, seed))), lim))

\* search_entries from the filter result on
SearchFiltered(spec, filtered, lim, rf, seed) ==
    IF filtered.raised # "none" THEN filtered
    ELSE IF filtered.value = <<>> THEN Returned(<<>>)
    ELSE Ranked(spec, ScoreQuery(spec), DictKeys(filtered.value, <<>>), lim, rf, seed)

\* search_entries on the parsed query
SearchParsed(spec, es, lim, regex, rf, seed) ==
    SearchFiltered(spec, FilterFrom(spec, es, regex, <<>>), lim, rf, seed)

\* search_entries on the stripped query
SearchStripped(stripped, es, lim, regex, rf, seed) ==
    IF stripped = <<>> THEN Returned(<<>>)
    ELSE IF lim <= 0 THEN Returned(<<>>)
    ELSE SearchParsed(_parse_query(stripped), es, lim, regex, rf, seed)

search_entries(query0, es, lim, regex, rf, seed) ==
    SearchStripped(strip(query0), es, lim, regex, rf, seed)

(***************************************************************************)
(* The filesystem the indexer reads.  A path is the sequence of its name    *)
(* components below "/", a name is a sequence of characters; fs maps each   *)
(* path that exists to its node.                                            *)
(***************************************************************************)

FileNode(text, read) == [k |-> "file", to |-> <<>>, read |-> read, text |-> text]

DirNode(read) == [k |-> "dir", to |-> <<>>, read |-> read, text |-> <<>>]

LinkNode(to) == [k |-> "link", to |-> to, read |-> "ok", text |-> <<>>]

\* the index of the first c in s at or after `from`; Len(s) + 1 if there is none
IndexFrom(s, c, from) ==
    IF \E i \in from..Len(s) : s[i] = c
    THEN CHOOSE i \in from..Len(s) :
            s[i] = c /\ \A j \in {k \in from..Len(s) : s[k] = c} : i <= j
    ELSE Len(s) + 1

\* str(path) of an absolute path
RECURSIVE PathStr(_)
PathStr(p) == IF p = <<>> THEN <<>> ELSE <<"/">> \o Head(p) \o PathStr(Tail(p))

\* the names of a relative path, joined with "/"; "." for no name
RelStr(names) == IF names = <<>> THEN <<".">> ELSE Tail(PathStr(names))

\* the name components of Path(line): the runs between "/", without "" and "."
RECURSIVE PartsFrom(_, _, _)
PartsTo(s, from, acc, end) ==
    PartsFrom(s, end + 1,
              IF SubSeq(s, from, end - 1) \in {<<>>, <<".">>} THEN acc
              ELSE Append(acc, SubSeq(s, from, end - 1)))

PartsFrom(s, from, acc) ==
    IF from > Len(s) THEN acc ELSE PartsTo(s, from, acc, IndexFrom(s, "/", from))

PathParts(line) == PartsFrom(line, 1, <<>>)

is_absolute(line) == startswith(line, <<"/">>)

\* p lies at or under the directory d
IsUnder(p, d) == Len(d) <= Len(p) /\ SubSeq(p, 1, Len(d)) = d

\* os.path.realpath(p, strict=False): the symbolic links on the way followed;
\* `loop` when the links do not end
RECURSIVE RealFrom(_, _, _, _)
RECURSIVE RealNext(_, _, _, _, _)
RealNext(f, next, done, rest, fuel) ==
    IF next \in DOMAIN f /\ f[next].k = "link"
    THEN IF fuel = 0 THEN [path |-> next \o Tail(rest), loop |-> TRUE]
         ELSE RealFrom(f, <<>>, f[next].to \o Tail(rest), fuel - 1)
    ELSE RealFrom(f, next, Tail(rest), fuel)

RealFrom(f, done, rest, fuel) ==
    IF rest = <<>> THEN [path |-> done, loop |-> FALSE]
    ELSE RealNext(f, Append(done, Head(rest)), done, rest, fuel)

realpath(f, p) == RealFrom(f, <<>>, p, Cardinality(DOMAIN f))

\* a name longer than NAME_MAX is in the path
NameTooLong(p) == \E i \in 1..Len(p) : Len(p[i]) > 255

\* os.stat(p): the kind of the node the path leads to, or the errno
StatReal(f, p, real) ==
    IF NameTooLong(p) THEN "ENAMETOOLONG"
    ELSE IF real.loop THEN "ELOOP"
    ELSE IF real.path \in DOMAIN f THEN f[real.path].k
    ELSE "ENOENT"

stat(f, p) == StatReal(f, p, realpath(f, p))

\* pathlib's _ignore_error: the errnos that exists(), is_file() and is_dir()
\* answer with False
Ignored(st) == st \in {"ENOENT", "ELOOP"}

\* Path.resolve(): the canonical path, or RuntimeError on a symlink loop where
\* the interpreter raises it
ResolveReal(real, pf) ==
    IF real.loop /\ pf.eloop_raises THEN [raised |-> "RuntimeError", path |-> <<>>]
    ELSE [raised |-> "none", path |-> real.path]

resolve(f, p, pf) == ResolveReal(realpath(f, p), pf)

(***************************************************************************)
(* indexer.py: the walk of the tree.                                       *)
(***************************************************************************)

\* the names a directory listing can hold, in the order the OS returns them
NameOrder ==
    << <<"a">>, <<"d">>, <<"f">>, <<"l">>, <<"#", "a">>, <<" ", "a">>, <<"a", "\n", "d">>,
       <<"F", "i", "l", "e", "L", "i", "s", "t", ".", "t", "x", "t">>,
       <<"f", "i", "l", "e", "l", "i", "s", "t", ".", "t", "x", "t">>,
       <<"F", "i", "l", "e", "l", "i", "s", "t", ".", "t", "x", "t">> >>

RECURSIVE ChildrenFrom(_, _, _)
ChildrenFrom(f, d, names) ==
    IF names = <<>> THEN <<>>
    ELSE IF Append(d, Head(names)) \in DOMAIN f
         THEN <<Append(d, Head(names))>> \o ChildrenFrom(f, d, Tail(names))
         ELSE ChildrenFrom(f, d, Tail(names))

RECURSIVE Reverse(_)
Reverse(s) == IF s = <<>> THEN <<>> ELSE Append(Reverse(Tail(s)), Head(s))

\* Path.iterdir(): the children of the directory, or the error of os.listdir
IterdirKind(f, d, pf, st) ==
    IF st \in {"ENOENT", "ELOOP"} THEN [raised |-> "FileNotFoundError", children |-> <<>>]
    ELSE IF st # "dir" THEN [raised |-> "NotADirectoryError", children |-> <<>>]
    ELSE IF f[d].read # "ok" THEN [raised |-> "PermissionError", children |-> <<>>]
    ELSE [raised |-> "none",
          children |-> IF pf.reverse_listing THEN Reverse(ChildrenFrom(f, d, NameOrder))
                       ELSE ChildrenFrom(f, d, NameOrder)]

iterdir(f, d, pf) ==
    IterdirKind(f, d, pf, IF d \in DOMAIN f THEN f[d].k ELSE "ENOENT")

is_symlink(f, p) == p \in DOMAIN f /\ f[p].k = "link"

is_dir(f, p) == stat(f, p) = "dir"

is_file(f, p) == stat(f, p) = "file"

\* the locals of _walk before its loop
WalkStart(root) ==
    [stack |-> <<root>>, pending |-> <<>>, files |-> <<>>, dirs |-> <<>>,
     visited |-> <<>>, status |-> "run"]

WalkIdle ==
    [stack |-> <<>>, pending |-> <<>>, files |-> <<>>, dirs |-> <<>>,
     visited |-> <<>>, status |-> "idle"]

\* a walk that never adds a directory to the stack
ChildNeverDescended(f, w, child, res) ==
    IF res.raised # "none" THEN [w EXCEPT !.status = res.raised, !.pending = <<>>]
    ELSE IF is_dir(f, child)
    THEN [w EXCEPT !.dirs = Append(@, res.path), !.pending = Tail(@)]
    ELSE [w EXCEPT !.files = Append(@, res.path), !.pending = Tail(@)]

\* a walk that adds every directory to the stack, reached through a link or not
ChildAlwaysDescended(f, w, child, res) ==
    IF res.raised # "none" THEN [w EXCEPT !.status = res.raised, !.pending = <<>>]
    ELSE IF is_dir(f, child)
    THEN [w EXCEPT !.dirs = Append(@, res.path), !.pending = Tail(@),
                   !.stack = IF Len(w.visited) < 6 THEN Append(@, res.path) ELSE @]
    ELSE [w EXCEPT !.files = Append(@, res.path), !.pending = Tail(@)]

\* the body of the inner loop for one child
ChildResolved(f, w, child, res) ==
    IF res.raised # "none" THEN [w EXCEPT !.status = res.raised, !.pending = <<>>]
    ELSE IF is_dir(f, child)
    THEN [w EXCEPT !.dirs = Append(@, res.path), !.pending = Tail(@),
                   !.stack = IF is_symlink(f, child) THEN @ ELSE Append(@, res.path)]
    ELSE [w EXCEPT !.files = Append(@, res.path), !.pending = Tail(@)]

ChildStep(f, pf, w, child) == ChildResolved(f, w, child, resolve(f, child, pf))

\* an except clause that lets the two errors through
ListedNothingCaught(w, current, rest, listing) ==
    IF listing.raised = "none"
    THEN [w EXCEPT !.stack = rest, !.pending = listing.children,
                   !.visited = Append(@, current)]
    ELSE [w EXCEPT !.stack = rest, !.status = listing.raised,
                   !.visited = Append(@, current)]

\* stack.pop() and the listing of the directory, with the two except clauses;
\* visited keeps the directories popped
Listed(w, current, rest, listing) ==
    IF listing.raised = "none"
    THEN [w EXCEPT !.stack = rest, !.pending = listing.children,
                   !.visited = Append(@, current)]
    ELSE IF listing.raised \in {"PermissionError", "NotADirectoryError"}
    THEN [w EXCEPT !.stack = rest, !.visited = Append(@, current)]
    ELSE [w EXCEPT !.stack = rest, !.status = listing.raised,
                   !.visited = Append(@, current)]

PopStep(f, pf, w, current, rest) == Listed(w, current, rest, iterdir(f, current, pf))

\* one step of _walk: the next child of the listing in progress, else the
\* next directory of the stack, else the return
WalkStep(f, pf, w) ==
    IF w.pending # <<>> THEN ChildStep(f, pf, w, Head(w.pending))
    ELSE IF w.stack = <<>> THEN [w EXCEPT !.status = "done"]
    ELSE PopStep(f, pf, w, w.stack[Len(w.stack)], SubSeq(w.stack, 1, Len(w.stack) - 1))

RECURSIVE RunWalk(_, _, _)
RunWalk(f, pf, w) == IF w.status # "run" THEN w ELSE RunWalk(f, pf, WalkStep(f, pf, w))

WalkResolved(f, pf, res) ==
    IF res.raised # "none" THEN [WalkIdle EXCEPT !.status = res.raised]
    ELSE RunWalk(f, pf, WalkStart(res.path))

_walk(f, pf, root) == WalkResolved(f, pf, resolve(f, root, pf))

WalkRaised(w) == IF w.status = "done" THEN "none" ELSE w.status

FilesOf(w) ==
    IF WalkRaised(w) # "none" THEN [raised |-> WalkRaised(w), entries |-> <<>>]
    ELSE [raised |-> "none", entries |-> w.files]

walk_files(f, pf, root) == FilesOf(_walk(f, pf, root))

DirsOf(w) ==
    IF WalkRaised(w) # "none" THEN [raised |-> WalkRaised(w), entries |-> <<>>]
    ELSE [raised |-> "none", entries |-> w.dirs]

walk_dirs(f, pf, root) == DirsOf(_walk(f, pf, root))

\* a combined view that puts the directories first
DirsBeforeFiles(w, include_files, include_dirs) ==
    IF WalkRaised(w) # "none" THEN [raised |-> WalkRaised(w), entries |-> <<>>]
    ELSE [raised |-> "none",
          entries |-> (IF include_dirs THEN w.dirs ELSE <<>>)
                      \o (IF include_files THEN w.files ELSE <<>>)]

\* walk_entries: the files of the walk, then its directories
WalkEntriesOf(w, include_files, include_dirs) ==
    IF WalkRaised(w) # "none" THEN [raised |-> WalkRaised(w), entries |-> <<>>]
    ELSE [raised |-> "none",
          entries |-> (IF include_files THEN w.files ELSE <<>>)
                      \o (IF include_dirs THEN w.dirs ELSE <<>>)]

walk_entries(f, pf, root, include_files, include_dirs) ==
    WalkEntriesOf(_walk(f, pf, root), include_files, include_dirs)

(***************************************************************************)
(* indexer.py: the manifest.                                               *)
(***************************************************************************)

FileListTxt == <<"F", "i", "l", "e", "L", "i", "s", "t", ".", "t", "x", "t">>

filelist_txt == <<"f", "i", "l", "e", "l", "i", "s", "t", ".", "t", "x", "t">>

NoFilelist == [raised |-> "none", found |-> FALSE, path |-> <<>>]

FoundFilelist(p) == [raised |-> "none", found |-> TRUE, path |-> p]

\* the loop over root.iterdir(): the first regular file named filelist.txt in
\* any letter case
RECURSIVE FindAmong(_, _)
FindAmong(f, children) ==
    IF children = <<>> THEN NoFilelist
    ELSE IF is_file(f, Head(children))
            /\ lower(Head(children)[Len(Head(children))]) = filelist_txt
    THEN FoundFilelist(Head(children))
    ELSE FindAmong(f, Tail(children))

FindListed(f, listing) ==
    IF listing.raised # "none"
    THEN [raised |-> listing.raised, found |-> FALSE, path |-> <<>>]
    ELSE FindAmong(f, listing.children)

\* a lookup that knows the two fixed spellings only
FindFixedNamesOnly(f, pf, root) ==
    IF is_file(f, Append(root, FileListTxt)) THEN FoundFilelist(Append(root, FileListTxt))
    ELSE IF is_file(f, Append(root, filelist_txt))
    THEN FoundFilelist(Append(root, filelist_txt))
    ELSE NoFilelist

find_filelist(f, pf, root) ==
    IF is_file(f, Append(root, FileListTxt)) THEN FoundFilelist(Append(root, FileListTxt))
    ELSE IF is_file(f, Append(root, filelist_txt))
    THEN FoundFilelist(Append(root, filelist_txt))
    ELSE FindListed(f, iterdir(f, root, pf))

\* str.splitlines()
RECURSIVE SplitLinesFrom(_, _, _)
SplitLinesTo(s, from, acc, end) ==
    SplitLinesFrom(s, end + 1, Append(acc, SubSeq(s, from, end - 1)))

SplitLinesFrom(s, from, acc) ==
    IF from > Len(s) THEN acc ELSE SplitLinesTo(s, from, acc, IndexFrom(s, "\n", from))

splitlines(s) == SplitLinesFrom(s, 1, <<>>)

\* Path.read_text(encoding="utf-8")
ReadNode(node) ==
    IF node.read # "ok" THEN [raised |-> node.read, text |-> <<>>]
    ELSE [raised |-> "none", text |-> node.text]

read_text(f, p) == ReadNode(f[realpath(f, p).path])

\* is_seq(x): the range of a sequence
Range(s) == {s[i] : i \in 1..Len(s)}

RECURSIVE ParseLines(_, _, _, _, _, _, _)

\* a manifest that keeps every line as often as it is written
LineKeptAgain(f, pf, root, flags, rest, seen, out, resolved, st) ==
    IF st = "ENAMETOOLONG" THEN [raised |-> "OSError", entries |-> <<>>]
    ELSE IF Ignored(st) THEN ParseLines(f, pf, root, flags, rest, seen, out)
    ELSE IF st = "file" /\ ~flags.include_files
    THEN ParseLines(f, pf, root, flags, rest, seen, out)
    ELSE IF st = "dir" /\ ~flags.include_dirs
    THEN ParseLines(f, pf, root, flags, rest, seen, out)
    ELSE ParseLines(f, pf, root, flags, rest, seen \cup {resolved}, Append(out, resolved))

\* a manifest whose kind switches are not looked at
LineOfAnyKind(f, pf, root, flags, rest, seen, out, resolved, st) ==
    IF st = "ENAMETOOLONG" THEN [raised |-> "OSError", entries |-> <<>>]
    ELSE IF Ignored(st) THEN ParseLines(f, pf, root, flags, rest, seen, out)
    ELSE IF resolved \in seen THEN ParseLines(f, pf, root, flags, rest, seen, out)
    ELSE ParseLines(f, pf, root, flags, rest, seen \cup {resolved}, Append(out, resolved))

\* the checks on one resolved line: it exists, its kind is asked for, it is new
LineStat(f, pf, root, flags, rest, seen, out, resolved, st) ==
    IF st = "ENAMETOOLONG" THEN [raised |-> "OSError", entries |-> <<>>]
    ELSE IF Ignored(st) THEN ParseLines(f, pf, root, flags, rest, seen, out)
    ELSE IF st = "file" /\ ~flags.include_files
    THEN ParseLines(f, pf, root, flags, rest, seen, out)
    ELSE IF st = "dir" /\ ~flags.include_dirs
    THEN ParseLines(f, pf, root, flags, rest, seen, out)
    ELSE IF resolved \in seen THEN ParseLines(f, pf, root, flags, rest, seen, out)
    ELSE ParseLines(f, pf, root, flags, rest, seen \cup {resolved}, Append(out, resolved))

LineResolved(f, pf, root, flags, rest, seen, out, res) ==
    IF res.raised # "none" THEN [raised |-> res.raised, entries |-> <<>>]
    ELSE LineStat(f, pf, root, flags, rest, seen, out, res.path, stat(f, res.path))

\* the path a manifest line names: itself if absolute, else below the root
LinePath(root, line) ==
    IF is_absolute(line) THEN PathParts(line) ELSE root \o PathParts(line)

\* a manifest whose lines are taken as they are written
LineUnstripped(f, pf, root, flags, rest, seen, out, line) ==
    IF line = <<>> THEN ParseLines(f, pf, root, flags, rest, seen, out)
    ELSE LineResolved(f, pf, root, flags, rest, seen, out,
                      resolve(f, LinePath(root, line), pf))

LineStripped(f, pf, root, flags, rest, seen, out, line) ==
    IF line = <<>> \/ startswith(line, <<"#">>)
    THEN ParseLines(f, pf, root, flags, rest, seen, out)
    ELSE LineResolved(f, pf, root, flags, rest, seen, out,
                      resolve(f, LinePath(root, line), pf))

ParseLines(f, pf, root, flags, lines, seen, out) ==
    IF lines = <<>> THEN [raised |-> "none", entries |-> out]
    ELSE LineStripped(f, pf, root, flags, Tail(lines), seen, out, strip(Head(lines)))

ParseRead(f, pf, root, flags, rd) ==
    IF rd.raised # "none" THEN [raised |-> rd.raised, entries |-> <<>>]
    ELSE ParseLines(f, pf, root, flags, splitlines(rd.text), {}, <<>>)

parse_filelist(f, pf, filelist, root, include_files, include_dirs) ==
    ParseRead(f, pf, root,
              [include_files |-> include_files, include_dirs |-> include_dirs],
              read_text(f, filelist))

(***************************************************************************)
(* indexer.py: the index build.                                            *)
(***************************************************************************)

IndexBuildResult(exc, ents, source, filelist_path) ==
    [raised |-> exc, entries |-> ents, source |-> source,
     filelist_path |-> filelist_path]

FromWalker(out) == IndexBuildResult(out.raised, out.entries, "walker", <<>>)

FromFilelist(out, filelist) == IndexBuildResult(out.raised, out.entries, "filelist", filelist)

\* a build that walks the tree when the manifest cannot be read
ParsedOrWalked(f, pf, root, include_files, include_dirs, found, out) ==
    IF out.raised # "none"
    THEN FromWalker(walk_entries(f, pf, root, include_files, include_dirs))
    ELSE FromFilelist(out, found.path)

BuildFallsBack(f, pf, root, include_files, include_dirs, found) ==
    IF found.raised # "none" THEN IndexBuildResult(found.raised, <<>>, "none", <<>>)
    ELSE IF found.found
    THEN ParsedOrWalked(f, pf, root, include_files, include_dirs, found,
                        parse_filelist(f, pf, found.path, root, include_files, include_dirs))
    ELSE FromWalker(walk_entries(f, pf, root, include_files, include_dirs))

\* a build that walks the tree whether a manifest is there or not
BuildAlwaysWalks(f, pf, root, include_files, include_dirs, found) ==
    IF found.raised # "none" THEN IndexBuildResult(found.raised, <<>>, "none", <<>>)
    ELSE FromWalker(walk_entries(f, pf, root, include_files, include_dirs))

BuildFound(f, pf, root, include_files, include_dirs, found) ==
    IF found.raised # "none" THEN IndexBuildResult(found.raised, <<>>, "none", <<>>)
    ELSE IF found.found
    THEN FromFilelist(parse_filelist(f, pf, found.path, root, include_files, include_dirs),
                      found.path)
    ELSE FromWalker(walk_entries(f, pf, root, include_files, include_dirs))

\* a build that walks the tree even when both switches are off
BuildWithoutSwitchCheck(f, pf, use_filelist, include_files, include_dirs, res) ==
    IF res.raised # "none" THEN IndexBuildResult(res.raised, <<>>, "none", <<>>)
    ELSE BuildFound(f, pf, res.path, include_files, include_dirs,
                    IF use_filelist THEN find_filelist(f, pf, res.path) ELSE NoFilelist)

BuildResolved(f, pf, use_filelist, include_files, include_dirs, res) ==
    IF res.raised # "none" THEN IndexBuildResult(res.raised, <<>>, "none", <<>>)
    ELSE IF ~include_files /\ ~include_dirs THEN IndexBuildResult("none", <<>>, "none", <<>>)
    ELSE BuildFound(f, pf, res.path, include_files, include_dirs,
                    IF use_filelist THEN find_filelist(f, pf, res.path) ELSE NoFilelist)

build_index_with_metadata(f, pf, root, use_filelist, include_files, include_dirs) ==
    BuildResolved(f, pf, use_filelist, include_files, include_dirs, resolve(f, root, pf))

build_index(f, pf, root, use_filelist, include_files, include_dirs) ==
    build_index_with_metadata(f, pf, root, use_filelist, include_files, include_dirs)

\* a manifest line that is the absolute path, below the root or not
LineAlwaysAbsolute(resolved, root) == PathStr(resolved)

\* the manifest line of an entry: relative to the root if below it
LineOf(resolved, root) ==
    IF IsUnder(resolved, root)
    THEN RelStr(SubSeq(resolved, Len(root) + 1, Len(resolved)))
    ELSE PathStr(resolved)

RECURSIVE TextLines(_, _, _, _, _)
TextLineResolved(f, pf, root, rest, lines, res) ==
    IF res.raised # "none" THEN [raised |-> res.raised, lines |-> <<>>]
    ELSE IF LineOf(res.path, root) \in Range(lines) THEN TextLines(f, pf, root, rest, lines)
    ELSE TextLines(f, pf, root, rest, Append(lines, LineOf(res.path, root)))

TextLines(f, pf, root, ents, lines) ==
    IF ents = <<>> THEN [raised |-> "none", lines |-> lines]
    ELSE TextLineResolved(f, pf, root, Tail(ents), lines, resolve(f, Head(ents), pf))

\* "\n".join(lines) + "\n"
RECURSIVE JoinLines(_)
JoinLines(lines) ==
    IF lines = <<>> THEN <<>> ELSE Head(lines) \o <<"\n">> \o JoinLines(Tail(lines))

TextOf(tl) == [raised |-> tl.raised, text |-> JoinLines(tl.lines)]

TextResolved(f, pf, ents, res) ==
    IF res.raised # "none" THEN [raised |-> res.raised, text |-> <<>>]
    ELSE TextOf(TextLines(f, pf, res.path, ents, <<>>))

build_filelist_text(f, pf, ents, root) == TextResolved(f, pf, ents, resolve(f, root, pf))

\* Path.write_text: the file at the target holds the text afterwards
WriteText(f, target, text) ==
    [p \in DOMAIN f \cup {target} |-> IF p = target THEN FileNode(text, "ok") ELSE f[p]]

Written(f, target, txt) ==
    IF txt.raised # "none" THEN [raised |-> txt.raised, fs |-> f, path |-> <<>>]
    ELSE [raised |-> "none", fs |-> WriteText(f, target, txt.text), path |-> target]

WriteResolved(f, pf, ents, res) ==
    IF res.raised # "none" THEN [raised |-> res.raised, fs |-> f, path |-> <<>>]
    ELSE Written(f, Append(res.path, FileListTxt),
                 build_filelist_text(f, pf, ents, res.path))

write_filelist(f, pf, root, ents) == WriteResolved(f, pf, ents, resolve(f, root, pf))

(***************************************************************************)
(* ui_model.py: the positions of a term in a text, the visible matches.    *)
(* A position is an index of Python, counted from 0.                       *)
(***************************************************************************)

\* str.find(sub): the index of the first occurrence, -1 when there is none
find(s, sub) ==
    IF contains(s, sub)
    THEN CHOOSE i \in 0..(Len(s) - Len(sub)) :
            /\ SubSeq(s, i + 1, i + Len(sub)) = sub
            /\ \A j \in 0..(i - 1) : SubSeq(s, j + 1, j + Len(sub)) # sub
    ELSE 0 - 1

\* the loop of _find_match_positions: the positions added and the count qi
RECURSIVE ScanFrom(_, _, _, _, _)
ScanFrom(lower_text, lower_query, ti, qi, positions) ==
    IF ti = Len(lower_text) THEN [positions |-> positions, qi |-> qi]
    ELSE IF qi < Len(lower_query) /\ lower_text[ti + 1] = lower_query[qi + 1]
    THEN ScanFrom(lower_text, lower_query, ti + 1, qi + 1, positions \cup {ti})
    ELSE ScanFrom(lower_text, lower_query, ti + 1, qi, positions)

Scanned(lower_query, scan) ==
    IF scan.qi = Len(lower_query) THEN scan.positions ELSE {}

FoundAt(lower_text, lower_query, start) ==
    IF start >= 0 THEN start..(start + Len(lower_query) - 1)
    ELSE Scanned(lower_query, ScanFrom(lower_text, lower_query, 0, 0, {}))

MatchLowered(lower_text, lower_query) ==
    FoundAt(lower_text, lower_query, find(lower_text, lower_query))

_find_match_positions(text, q) ==
    IF q = <<>> THEN {} ELSE MatchLowered(lower(text), lower(q))

\* the loop body of _highlight_terms
UnExact(token) == IF startswith(token, <<"'">>) THEN Tail(token) ELSE token

UnStart(token) == IF startswith(token, <<"^">>) THEN Tail(token) ELSE token

UnEnd(token) ==
    IF endswith(token, <<"$">>) THEN SubSeq(token, 1, Len(token) - 1) ELSE token

HighlightCore(token) == UnEnd(UnStart(UnExact(token)))

RECURSIVE HighlightFrom(_, _)
HighlightFrom(tokens, terms) ==
    IF tokens = <<>> THEN terms
    ELSE IF startswith(Head(tokens), <<"!">>) THEN HighlightFrom(Tail(tokens), terms)
    ELSE IF HighlightCore(Head(tokens)) = <<>> THEN HighlightFrom(Tail(tokens), terms)
    ELSE HighlightFrom(Tail(tokens), Append(terms, HighlightCore(Head(tokens))))

_highlight_terms(q) == HighlightFrom(split(q), <<>>)

\* _display_path on the two resolved paths: relative to the root when the
\* path lies under it, else (ValueError) the path as it is
DisplayResolved(path, rp, rr) ==
    IF rp.raised # "none" THEN [raised |-> rp.raised, text |-> <<>>]
    ELSE IF rr.raised # "none" THEN [raised |-> rr.raised, text |-> <<>>]
    ELSE IF IsUnder(rp.path, rr.path)
    THEN [raised |-> "none",
          text |-> RelStr(SubSeq(rp.path, Len(rr.path) + 1, Len(rp.path)))]
    ELSE [raised |-> "none", text |-> PathStr(path)]

_display_path(f, pf, path, root) ==
    DisplayResolved(path, resolve(f, path, pf), resolve(f, root, pf))

\* Path.name of a path of names
LastName(path) == IF path = <<>> THEN <<>> ELSE path[Len(path)]

VisibleIn(name, display, terms) ==
    IF display.raised # "none" THEN display.raised
    ELSE IF \E i \in 1..Len(terms) :
               \/ _find_match_positions(name, terms[i]) # {}
               \/ _find_match_positions(display.text, terms[i]) # {}
    THEN "True"
    ELSE "False"

\* has_visible_match: "True", "False", or the exception raised
VisibleTerms(f, pf, path, root, terms) ==
    IF terms = <<>> THEN "True"
    ELSE VisibleIn(LastName(path), _display_path(f, pf, path, root), terms)

has_visible_match(f, pf, path, root, q) ==
    VisibleTerms(f, pf, path, root, _highlight_terms(q))

\* no call of _find_match_positions has been made
NotMarked == [called |-> FALSE, text |-> <<>>, term |-> <<>>, positions |-> {}]

(***************************************************************************)
(* actions.py: execute or open.  A path is given by what the calls on it   *)
(* answer: is_dir(), suffix, os.access(path, os.X_OK); the platform by     *)
(* sys.platform, by what subprocess.Popen([str(path)]) does and by what    *)
(* the default opener does.                                                *)
(***************************************************************************)

WINDOWS_EXECUTABLE_SUFFIXES ==
    { <<".", "e", "x", "e">>, <<".", "c", "o", "m">>, <<".", "b", "a", "t">>,
      <<".", "c", "m", "d">>, <<".", "p", "s", "1">> }

choose_action(path, sys_platform) ==
    IF path.is_dir THEN "open"
    ELSE IF startswith(sys_platform, <<"w", "i", "n">>)
    THEN IF lower(path.suffix) \in WINDOWS_EXECUTABLE_SUFFIXES THEN "execute" ELSE "open"
    ELSE IF path.x_ok THEN "execute"
    ELSE "open"

\* what one execute_or_open call did: the direct launches, the calls of the
\* default opener, the exception that left it
Dispatched(action, popen_calls, default_calls, exc) ==
    [action |-> action, popen_calls |-> popen_calls, default_calls |-> default_calls,
     raised |-> exc]

\* _open_with_default: os.startfile, open or xdg-open, once
_open_with_default(sys_platform, opener) ==
    [tool |-> IF startswith(sys_platform, <<"w", "i", "n">>) THEN "os.startfile"
              ELSE IF sys_platform = <<"d", "a", "r", "w", "i", "n">> THEN "open"
              ELSE "xdg-open",
     raised |-> opener]

\* an except branch that opens with the default on every OSError
LaunchFailedAlwaysOpens(action, sys_platform, popen, opener) ==
    Dispatched(action, 1, 1, _open_with_default(sys_platform, opener).raised)

\* the except branch: getattr(exc, "winerror", None) == 193
LaunchFailed(action, sys_platform, popen, opener) ==
    IF popen.winerror = 193
    THEN Dispatched(action, 1, 1, _open_with_default(sys_platform, opener).raised)
    ELSE Dispatched(action, 1, 0, popen.raised)

Chosen(action, sys_platform, popen, opener) ==
    IF action = "execute"
    THEN IF popen.raised = "none" THEN Dispatched(action, 1, 0, "none")
         ELSE IF popen.raised = "OSError"
         THEN LaunchFailed(action, sys_platform, popen, opener)
         ELSE Dispatched(action, 1, 0, popen.raised)
    ELSE Dispatched(action, 0, 1, _open_with_default(sys_platform, opener).raised)

execute_or_open(path, sys_platform, popen, opener) ==
    Chosen(choose_action(path, sys_platform), sys_platform, popen, opener)

\* no call of execute_or_open has been made
NotDispatched ==
    [called |-> FALSE, path |-> [is_dir |-> FALSE, suffix |-> <<>>, x_ok |-> FALSE],
     sys_platform |-> <<>>, popen |-> [raised |-> "none", winerror |-> 0],
     opener |-> "none", did |-> Dispatched("none", 0, 0, "none")]

(***************************************************************************)
(* gui.py: the main window.  A window record holds the attributes of       *)
(* MainWindow and the state of its widgets.  A handler gives the window it *)
(* leaves, the exception that left it ("none" when it returned) and the    *)
(* calls it made, in order.                                                *)
(***************************************************************************)

Went(w, calls) == [w |-> w, raised |-> "none", calls |-> calls]

Threw(w, exc, calls) == [w |-> w, raised |-> exc, calls |-> calls]

\* max(1, min(args.limit, 1000))
ClampLimit(lim) == IF lim < 1 THEN 1 ELSE IF lim > 1000 THEN 1000 ELSE lim

\* MainWindow.__init__ before its call of _refresh_index
MainWindow(root, lim, text) ==
    [root |-> root, limit |-> ClampLimit(lim),
     index |-> IndexBuildResult("none", <<>>, "none", <<>>),
     entries |-> <<>>, current_results |-> <<>>,
     use_filelist_check |-> TRUE, use_regex_check |-> FALSE,
     include_files_check |-> TRUE, include_dirs_check |-> TRUE,
     source_label |-> <<"-">>, query_input |-> text, query_timer |-> FALSE]

_build_source_text(index) ==
    IF index.source = "filelist" /\ index.filelist_path # <<>>
    THEN <<"FileList", LastName(index.filelist_path)>>
    ELSE IF index.source = "walker" THEN <<"Walker">>
    ELSE <<"None">>

\* the record of one build_index_with_metadata call of _rebuild_index
BuildCalled(w, out) ==
    [op |-> "build", root |-> w.root, use_filelist |-> w.use_filelist_check,
     include_files |-> w.include_files_check, include_dirs |-> w.include_dirs_check,
     held |-> w.entries, out |-> out]

\* a rebuild that adds the new entries to the ones held
RebuiltMerging(w, out, calls) ==
    IF out.raised # "none" THEN Threw(w, out.raised, Append(calls, BuildCalled(w, out)))
    ELSE Went([w EXCEPT !.index = out, !.entries = w.entries \o out.entries,
                        !.source_label = _build_source_text(out)],
              Append(calls, BuildCalled(w, out)))

\* _rebuild_index once build_index_with_metadata has returned or raised
Rebuilt(w, out, calls) ==
    IF out.raised # "none" THEN Threw(w, out.raised, Append(calls, BuildCalled(w, out)))
    ELSE Went([w EXCEPT !.index = out, !.entries = out.entries,
                        !.source_label = _build_source_text(out)],
              Append(calls, BuildCalled(w, out)))

_rebuild_index(f, pf, w, calls) ==
    Rebuilt(w,
            build_index_with_metadata(f, pf, w.root, w.use_filelist_check,
                                      w.include_files_check, w.include_dirs_check),
            calls)

\* the entries as search_entries takes them
StrsOf(ents) == [i \in 1..Len(ents) |-> PathStr(ents[i])]

\* [item for item in results if has_visible_match(item[0], self.root, query)]
RECURSIVE VisibleFrom(_, _, _, _, _, _)
VisibleNext(f, pf, results, root, q, acc, v) ==
    IF v \notin {"True", "False"} THEN [raised |-> v, value |-> <<>>]
    ELSE VisibleFrom(f, pf, Tail(results), root, q,
                     IF v = "True" THEN Append(acc, Head(results)) ELSE acc)

VisibleFrom(f, pf, results, root, q, acc) ==
    IF results = <<>> THEN Returned(acc)
    ELSE VisibleNext(f, pf, results, root, q, acc,
                     has_visible_match(f, pf, PathParts(Head(results).path), root, q))

Searched(f, pf, w, q, res) ==
    IF res.raised # "none" THEN res ELSE VisibleFrom(f, pf, res.value, w.root, q, <<>>)

\* [(path, 0.0) for path in self.entries[: self.limit]]
FirstEntries(w) ==
    [i \in 1..(IF Len(w.entries) < w.limit THEN Len(w.entries) ELSE w.limit) |->
        [path |-> PathStr(w.entries[i]), score |-> [n |-> 0, d |-> 1]]]

\* the new current_results of _update_results, or the exception raised
ResultsFor(f, pf, w, q) ==
    IF q # <<>>
    THEN Searched(f, pf, w, q,
                  search_entries(q, StrsOf(w.entries), w.limit, w.use_regex_check,
                                 rapidfuzz, wseed))
    ELSE Returned(FirstEntries(w))

\* the record of one run of _update_results
UpdateCalled(w, by, exc) ==
    [op |-> "update", by |-> by, raised |-> exc,
     from |-> [query |-> w.query_input, use_regex |-> w.use_regex_check,
               entries |-> w.entries]]

Updated(w, by, res, calls) ==
    IF res.raised # "none"
    THEN Threw(w, res.raised, Append(calls, UpdateCalled(w, by, res.raised)))
    ELSE Went([w EXCEPT !.current_results = res.value],
              Append(calls, UpdateCalled(w, by, "none")))

_update_results(f, pf, w, by, calls) ==
    Updated(w, by, ResultsFor(f, pf, w, strip(w.query_input)), calls)

\* except Exception as exc: QMessageBox.critical(self, title, str(exc)); the
\* message box is closed when the handler goes on
Caught(st, title) == IF st.raised = "none" THEN st ELSE Went(st.w, st.calls)

\* the statement after a call that may have raised
ThenUpdate(f, pf, st, by) ==
    IF st.raised # "none" THEN st ELSE _update_results(f, pf, st.w, by, st.calls)

_refresh_index(f, pf, w, calls) ==
    Caught(ThenUpdate(f, pf, _rebuild_index(f, pf, w, calls), "_refresh_index"),
           "Indexing failed")

_set_root(f, pf, w, new_root, calls) ==
    ThenUpdate(f, pf, _rebuild_index(f, pf, [w EXCEPT !.root = new_root], calls),
               "_set_root")

BrowseResolved(f, pf, w, res, calls) ==
    IF res.raised # "none" THEN Threw(w, res.raised, calls)
    ELSE _set_root(f, pf, w, res.path, calls)

\* _browse_root with the directory the dialog gave; <<>> when it was cancelled
_browse_root(f, pf, w, selected, calls) ==
    IF selected = <<>> THEN Went(w, calls)
    ELSE Caught(BrowseResolved(f, pf, w, resolve(f, selected, pf), calls),
                "Indexing failed")

\* QCheckBox.setChecked(True) on one of the two type boxes: a box that was
\* unchecked emits toggled, and the handler runs with the box as sender
RECURSIVE _on_type_toggle_changed(_, _, _, _, _)
SetChecked(f, pf, w, box, calls) ==
    IF box = "include_files_check"
    THEN IF w.include_files_check THEN Went(w, calls)
         ELSE _on_type_toggle_changed(f, pf, [w EXCEPT !.include_files_check = TRUE],
                                      box, Append(calls, [op |-> "setChecked"]))
    ELSE IF w.include_dirs_check THEN Went(w, calls)
         ELSE _on_type_toggle_changed(f, pf, [w EXCEPT !.include_dirs_check = TRUE],
                                      box, Append(calls, [op |-> "setChecked"]))

\* a handler that rebuilds whatever the two boxes say
TypeToggleRebuilds(f, pf, w, sender, calls) == _refresh_index(f, pf, w, calls)

_on_type_toggle_changed(f, pf, w, sender, calls) ==
    IF ~w.include_files_check /\ ~w.include_dirs_check
    THEN IF sender = "include_files_check"
         THEN SetChecked(f, pf, w, "include_dirs_check", calls)
         ELSE SetChecked(f, pf, w, "include_files_check", calls)
    ELSE _refresh_index(f, pf, w, calls)

_schedule_search(w) == [w EXCEPT !.query_timer = TRUE]

\* _create_filelist: the handler's outcome and the filesystem it leaves
Created(f, st) == [w |-> st.w, raised |-> st.raised, calls |-> st.calls, fs |-> f]

CreateRefreshed(f, pf, w, calls) ==
    IF w.use_filelist_check THEN _refresh_index(f, pf, w, calls) ELSE Went(w, calls)

CreateWritten(pf, w, written, calls) ==
    IF written.raised # "none"
    THEN Created(written.fs, Caught(Threw(w, written.raised, calls),
                                    "Create File List failed"))
    ELSE Created(written.fs,
                 Caught(CreateRefreshed(written.fs, pf, w, calls),
                        "Create File List failed"))

CreateSnapshot(f, pf, w, snapshot, calls) ==
    IF snapshot.raised # "none"
    THEN Created(f, Caught(Threw(w, snapshot.raised, calls), "Create File List failed"))
    ELSE CreateWritten(pf, w, write_filelist(f, pf, w.root, snapshot.entries), calls)

_create_filelist(f, pf, w, calls) ==
    CreateSnapshot(f, pf, w,
                   build_index_with_metadata(f, pf, w.root, FALSE, w.include_files_check,
                                             w.include_dirs_check),
                   calls)

\* no window has been made
NoWindow == MainWindow(<<>>, 1, <<>>)

\* the observer before the window has made a call
NotSeen ==
    [built |-> IndexBuildResult("none", <<>>, "none", <<>>),
     rebuild |-> "none", replaced |-> FALSE, rechecked |-> FALSE,
     succeeded |-> FALSE, both_off |-> FALSE,
     changes |-> 0, fired |-> 0, shown |-> <<>>, created |-> 0]

\* the observer after one more call of the window
ObserveCall(s, c) ==
    IF c.op = "build"
    THEN [s EXCEPT !.built = IF c.out.raised = "none" THEN c.out ELSE @,
                   !.rebuild = IF c.out.raised = "none" THEN "returned" ELSE "raised",
                   !.replaced = /\ c.out.raised = "none"
                                /\ c.out.entries # <<>>
                                /\ \E i \in 1..Len(c.held) :
                                      \A j \in 1..Len(c.out.entries) :
                                         c.held[i] # c.out.entries[j],
                   !.succeeded = @ \/ c.out.raised = "none",
                   !.both_off = @ \/ (~c.include_files /\ ~c.include_dirs)]
    ELSE IF c.op = "setChecked" THEN [s EXCEPT !.rechecked = TRUE]
    ELSE [s EXCEPT !.shown = IF c.raised = "none" THEN <<c.from>> ELSE @,
                   !.fired = IF c.by \in {"query_timer", "_schedule_search"}
                             THEN @ + 1 ELSE @]

RECURSIVE Observe(_, _)
Observe(s, calls) ==
    IF calls = <<>> THEN s ELSE Observe(ObserveCall(s, Head(calls)), Tail(calls))

(***************************************************************************)
(* The caller: an entry list, and calls of search_entries on it            *)
(***************************************************************************)

MaxEntries == 2
MaxLimit == 3
MaxCalls == 3

\* paths of the entry lists: /ba/B, /b/a, /a/a
EntryPool ==
    { <<"/", "b", "a", "/", "B">>, <<"/", "b", "/", "a">>, <<"/", "a", "/", "a">> }

\* the whole pool in each of its orders
PoolOrders ==
    {l \in [1..Cardinality(EntryPool) -> EntryPool] :
        \A i \in DOMAIN l : \A j \in DOMAIN l : l[i] = l[j] => i = j}

\* every list of up to MaxEntries paths of the pool, and the orders of the pool
EntryLists == UNION {[1..n -> EntryPool] : n \in 0..MaxEntries} \cup PoolOrders

Limits == (0 - 1)..MaxLimit

\* pieces of a query: nothing, a tab, include, exact and exclude tokens, bare sigils
Fragments ==
    { <<>>, <<"\t">>, <<"a">>, <<"a", "b">>, <<"'", "a">>, <<"'", "B">>,
      <<"!", "a">>, <<"!", "b">>, <<"'">>, <<"!">> }

\* one token: a sigil or none, "^" or not, a core, "$" or not
Sigils == { <<>>, <<"'">>, <<"!">> }

Cores == { <<>>, <<"a">>, <<"b", "a">>, <<"A">> }

AnchoredTokens ==
    { s \o pre \o core \o post :
        s \in Sigils, pre \in {<<>>, <<"^">>}, core \in Cores, post \in {<<>>, <<"$">>} }

\* regex patterns that compile, that do not, and one whose repeat count overflows
RegexTokens ==
    { <<"*">>, <<"a", "*", "b">>, <<".", "*", "a">>, <<"a", "*", "*">>, <<"(">>,
      <<"a", "(">>, <<"^", "*">>, <<"b", "{", "2", "}">>, <<"{", "1", "}">>,
      <<"a", "{">>, <<"a", "{", "}">>,
      <<"a", "{", "4", "2", "9", "4", "9", "6", "7", "2", "9", "5", "}">>,
      <<"a", "{", "4", "2", "9", "4", "9", "6", "7", "2", "9", "4", "}">> }

\* the regex patterns that are also tried behind an exclude term
GuardedTokens ==
    { <<"*">>, <<".", "*", "a">>,
      <<"a", "{", "4", "2", "9", "4", "9", "6", "7", "2", "9", "5", "}">> }

Queries ==
    Fragments
    \cup { f \o <<" ">> \o g : f \in Fragments, g \in Fragments }
    \cup AnchoredTokens
    \cup RegexTokens
    \cup { <<"!", "b", " ">> \o t : t \in GuardedTokens }
    \cup { <<"a", " ", "'", "a", " ", "!", "b">>, <<"'", "a", " ", "'", "B", " ", "a">>,
           <<"a", " ", "'", " ", "!">>, <<"b">> }

\* no indexer call has been made
NoCall ==
    [op |-> "none", root |-> <<>>, filelist |-> <<>>, use_filelist |-> FALSE,
     include_files |-> FALSE, include_dirs |-> FALSE]

NoOut == IndexBuildResult("none", <<>>, "none", <<>>)

RootDir == << <<"r">> >>

IndexIdle ==
    /\ fs = [p \in {RootDir} |-> DirNode("ok")]
    /\ platform = [reverse_listing |-> FALSE, eloop_raises |-> TRUE]
    /\ ixcall = NoCall
    /\ ixout = NoOut
    /\ walk = WalkIdle
    /\ win = NoWindow
    /\ observed = NotSeen
    /\ dispatch = NotDispatched
    /\ marks = NotMarked

Init ==
    /\ entries \in EntryLists
    /\ rapidfuzz \in BOOLEAN
    /\ wseed \in (IF rapidfuzz THEN {0, 1} ELSE {0})
    /\ query = <<>>
    /\ limit = 0
    /\ use_regex = FALSE
    /\ result = <<>>
    /\ raised = "none"
    /\ ncalls = 0
    /\ first = <<>>
    /\ varied = FALSE
    /\ IndexIdle

\* search_entries builds new lists (filtered, scored, boosted) and leaves the
\* list it was given as it is
\* a call that sorts the list it was given in place
EntriesSortedInPlace(es, out) ==
    IF out.value = <<>> THEN es ELSE [i \in 1..Len(out.value) |-> out.value[i].path]

EntriesAfterSearch(es, out) == es

SameCall(call, q, l, r) == call.query = q /\ call.limit = l /\ call.use_regex = r

\* one call search_entries(q, entries, l, use_regex=r)
Search(q, l, r) ==
    \E out \in {search_entries(q, entries, l, r, rapidfuzz, wseed)} :
       /\ query' = q
       /\ limit' = l
       /\ use_regex' = r
       /\ result' = out.value
       /\ raised' = out.raised
       /\ entries' = EntriesAfterSearch(entries, out)
       /\ ncalls' = ncalls + 1
       /\ first' = IF ncalls = 0
                   THEN <<[entries |-> entries, query |-> q, limit |-> l, use_regex |-> r,
                           result |-> out.value, raised |-> out.raised]>>
                   ELSE first
       /\ varied' = (varied \/ (ncalls > 0 /\ ~SameCall(first[1], q, l, r)))
       /\ UNCHANGED <<dispatch, marks, win, observed, rapidfuzz, wseed, fs, platform, ixcall, ixout, walk>>

\* a single call, over every query of the pool
Next == ncalls = 0 /\ \E q \in Queries, l \in Limits, r \in BOOLEAN : Search(q, l, r)

Spec == Init /\ [][Next]_vars

\* repeated calls on one held list: a fuzzy query, an exact one, a regex
RepeatCalls ==
    { [query |-> <<"a">>, use_regex |-> FALSE],
      [query |-> <<"'", "a">>, use_regex |-> FALSE],
      [query |-> <<"b", "*", "a">>, use_regex |-> TRUE] }

RepeatInit == Init /\ Len(entries) >= 2

RepeatNext ==
    ncalls < MaxCalls
    /\ \E c \in RepeatCalls, l \in {1, MaxLimit} : Search(c.query, l, c.use_regex)

SpecRepeat == RepeatInit /\ [][RepeatNext]_vars


(***************************************************************************)
(* Reference notions the properties are stated with.  They are written     *)
(* from the meaning of the words, not from the operators above.            *)
(***************************************************************************)

Called == ncalls >= 1

Blank(c) == c = " " \/ c = "\t"

\* the maximal runs of non-blank characters of s, as index pairs
TokenSpans(s) ==
    {p \in (1..Len(s)) \X (1..Len(s)) :
        /\ p[1] <= p[2]
        /\ \A k \in p[1]..p[2] : ~Blank(s[k])
        /\ (p[1] = 1 \/ Blank(s[p[1] - 1]))
        /\ (p[2] = Len(s) \/ Blank(s[p[2] + 1]))}

TokensOf(s) == {SubSeq(s, p[1], p[2]) : p \in TokenSpans(s)}

SigilOnly(t) == t = <<"'">> \/ t = <<"!">>

ExactTermsOf(s) == {SubSeq(t, 2, Len(t)) : t \in {u \in TokensOf(s) : u[1] = "'" /\ Len(u) > 1}}

ExcludeTermsOf(s) == {SubSeq(t, 2, Len(t)) : t \in {u \in TokensOf(s) : u[1] = "!" /\ Len(u) > 1}}

IncludeTermsOf(s) == {u \in TokensOf(s) : ~(u[1] \in {"'", "!"} /\ Len(u) > 1)}

IsPrefix(p, t) == \E k \in 0..Len(t) : SubSeq(t, 1, k) = p

IsSuffix(p, t) == \E k \in 1..(Len(t) + 1) : SubSeq(t, k, Len(t)) = p

IsInfix(p, t) == \E i \in 1..(Len(t) + 1) : \E j \in (i - 1)..Len(t) : SubSeq(t, i, j) = p

\* p is an ordered subsequence of t: a strictly increasing choice of positions
IsOrderedSubsequence(p, t) ==
    \E f \in [1..Len(p) -> 1..Len(t)] :
        /\ \A k \in 1..Len(p) : t[f[k]] = p[k]
        /\ \A k \in 1..(Len(p) - 1) : f[k] < f[k + 1]

HasStart(term) == term # <<>> /\ term[1] = "^"

HasEnd(term) == term # <<>> /\ term[Len(term)] = "$"

\* the term without its anchors
Remainder(term) ==
    [k \in 1..(Len(term) - (IF HasStart(term) THEN 1 ELSE 0) - (IF HasEnd(term) THEN 1 ELSE 0))
        |-> term[k + (IF HasStart(term) THEN 1 ELSE 0)]]

\* anchored matching as the four cases read, whatever the remainder is
LiteralAnchored(term, text) ==
    IF HasStart(term) /\ HasEnd(term) THEN text = Remainder(term)
    ELSE IF HasStart(term) THEN IsPrefix(Remainder(term), text)
    ELSE IF HasEnd(term) THEN IsSuffix(Remainder(term), text)
    ELSE IsInfix(Remainder(term), text)

\* anchored matching where a term with an empty remainder matches nothing
NonEmptyAnchored(term, text) == Remainder(term) # <<>> /\ LiteralAnchored(term, text)

LiteralHits(term, path) ==
    \/ LiteralAnchored(lower(term), lower(PathName(path)))
    \/ LiteralAnchored(lower(term), lower(path))

AnchoredHits(term, path) ==
    \/ NonEmptyAnchored(lower(term), lower(PathName(path)))
    \/ NonEmptyAnchored(lower(term), lower(path))

\* the soft anchors of an include term with the stripped term core
SoftAccepts(term, core, name, full) ==
    /\ \/ IsInfix(core, name) \/ IsOrderedSubsequence(core, name)
       \/ IsInfix(core, full) \/ IsOrderedSubsequence(core, full)
    /\ HasStart(term) =>
          /\ core # <<>>
          /\ \/ (name # <<>> /\ name[1] = core[1])
             \/ (full # <<>> /\ full[1] = core[1])
    /\ HasEnd(term) =>
          /\ core # <<>>
          /\ \/ (name # <<>> /\ name[Len(name)] = core[Len(core)])
             \/ (full # <<>> /\ full[Len(full)] = core[Len(core)])

SoftHits(term, path) ==
    SoftAccepts(lower(term), Remainder(lower(term)), lower(PathName(path)), lower(path))

Paths(scored) == {scored[i].path : i \in 1..Len(scored)}

\* position of the first occurrence of the path in the entry list
FirstIndex(es, path) == CHOOSE i \in 1..Len(es) : es[i] = path /\ \A k \in 1..(i - 1) : es[k] # path

Higher(x, y) == x.n * y.d > y.n * x.d

\* the whole ranked list of the latest call: the call with a limit nothing reaches
AllRanked == search_entries(query, entries, Len(entries) + 1, use_regex, rapidfuzz, wseed).value

\* the entries of the latest call that pass the three filters of the parsed query
SurvivorsOf(spec) ==
    {entries[i] : i \in {k \in 1..Len(entries) :
        _matches_spec(spec, entries[k], use_regex) = "True"}}

Survivors == SurvivorsOf(_parse_query(strip(query)))

FirstN(s, n) == [i \in 1..(IF n < Len(s) THEN n ELSE Len(s)) |-> s[i]]

(***************************************************************************)
(* Properties of search_entries                                            *)
(***************************************************************************)

\* C1: search_entries never returns an entry that an exclude term of the query
\* anchored-matches on its lowercased basename or its lowercased full path,
\* whatever include and exact terms the entry satisfies, in both regex modes.
ExclusionPriority ==
    Called => \A i \in 1..Len(result) : \A t \in ExcludeTermsOf(query) :
                 ~AnchoredHits(t, result[i].path)

\* C1 happens: in fuzzy mode an entry of the list satisfies every include term
\* and every exact term of a query that has both, an exclude term hits it, it
\* is not returned, and another entry is.
ExclusionPriorityWitness ==
    /\ Called /\ ~use_regex /\ raised = "none"
    /\ ExactTermsOf(query) # {} /\ IncludeTermsOf(query) # {}
    /\ result # <<>>
    /\ \E i \in 1..Len(entries) :
          /\ \E t \in ExcludeTermsOf(query) : AnchoredHits(t, entries[i])
          /\ \A t \in ExactTermsOf(query) : AnchoredHits(t, entries[i])
          /\ \A t \in IncludeTermsOf(query) : SoftHits(t, entries[i])
          /\ entries[i] \notin Paths(result)

\* C2: every entry search_entries returns anchored-matches every exact term of
\* the query on its basename or its full path.
ExactTermsAllHold ==
    Called => \A i \in 1..Len(result) : \A t \in ExactTermsOf(query) :
                 AnchoredHits(t, result[i].path)

\* C2 happens: the query has two exact terms, an entry of the list matches one
\* of them and not the other and is left out, and another entry is returned.
ExactTermsAllHoldWitness ==
    /\ Called /\ raised = "none"
    /\ Cardinality(ExactTermsOf(query)) >= 2
    /\ result # <<>>
    /\ \E i \in 1..Len(entries) :
          /\ \E t \in ExactTermsOf(query) : AnchoredHits(t, entries[i])
          /\ \E t \in ExactTermsOf(query) : ~AnchoredHits(t, entries[i])
          /\ entries[i] \notin Paths(result)

\* C3: the returned list is in non-increasing order of final score, and two
\* returned entries with the same final score are in the order in which they
\* occur in the entry list.
SortedAndStable ==
    Called => \A i \in 1..Len(result) : \A j \in (i + 1)..Len(result) :
                 /\ ~Higher(result[j].score, result[i].score)
                 /\ ~Higher(result[i].score, result[j].score)
                       => FirstIndex(entries, result[i].path)
                            < FirstIndex(entries, result[j].path)

\* C3 happens: the returned list holds two entries of equal score, and an
\* entry of higher score that stands after a returned one in the entry list.
SortedAndStableWitness ==
    /\ Called
    /\ \E i \in 1..Len(result) : \E j \in (i + 1)..Len(result) :
          /\ ~Higher(result[i].score, result[j].score)
          /\ ~Higher(result[j].score, result[i].score)
    /\ \E i \in 1..Len(result) : \E j \in (i + 1)..Len(result) :
          /\ Higher(result[i].score, result[j].score)
          /\ FirstIndex(entries, result[i].path) > FirstIndex(entries, result[j].path)

\* the latest result against the whole ranked list and the set of survivors
TruncationOf(all, survivors) ==
    /\ limit <= 0 => result = <<>>
    /\ limit > 0 =>
          /\ result = FirstN(all, limit)
          /\ (raised = "none" /\ \E k \in 1..Len(query) : ~Blank(query[k]))
                => Paths(all) = survivors /\ Len(all) = Cardinality(survivors)

\* C4: with limit > 0 search_entries returns the first `limit` elements of the
\* ranked list of the survivors, all of them when fewer survive; with
\* limit <= 0 it returns the empty list.
TruncatedToLimit == Called => TruncationOf(AllRanked, Survivors)

\* C4 happens: more entries survive than the positive limit, and the call
\* returns `limit` of them.
TruncatedToLimitWitness ==
    /\ Called /\ raised = "none"
    /\ limit > 0
    /\ Cardinality(Survivors) > limit
    /\ Len(result) = limit

\* C5: a query that is empty or holds only whitespace yields the empty list,
\* without an exception, for every entry list, limit and regex flag.
BlankQueryEmpty ==
    (Called /\ \A k \in 1..Len(query) : Blank(query[k]))
        => result = <<>> /\ raised = "none"

\* C5 happens: a call in regex mode with a query of whitespace only, a
\* positive limit and a non-empty entry list returned the empty list.
BlankQueryEmptyWitness ==
    /\ Called /\ query # <<>> /\ \A k \in 1..Len(query) : Blank(query[k])
    /\ entries # <<>> /\ limit > 0 /\ use_regex
    /\ result = <<>>

IsTerm(token) == ~SigilOnly(token)

\* the query without its tokens that are a lone sigil
WithoutSigilOnly(s) == join(SelectSeq(split(s), IsTerm))

\* C7: _parse_query makes no term of a token that is a lone ' or a lone !, and
\* the call returns the entries it returns for the query without such tokens.
SigilOnlyDropped ==
    (Called /\ \E k \in 1..Len(query) : ~Blank(query[k])) =>
        /\ Len(_parse_query(strip(query)).include_terms)
             + Len(_parse_query(strip(query)).exact_terms)
             + Len(_parse_query(strip(query)).exclude_terms)
           = Cardinality({p \in TokenSpans(query) : ~SigilOnly(SubSeq(query, p[1], p[2]))})
        /\ Paths(result)
             = Paths(search_entries(WithoutSigilOnly(query), entries, limit,
                                    use_regex, rapidfuzz, wseed).value)

\* C7 fails: the query holds a lone sigil beside an include term, and the call
\* returns nothing although the query without the sigil returns an entry.
SigilOnlyKept ==
    /\ Called /\ raised = "none"
    /\ \E t \in TokensOf(query) : SigilOnly(t)
    /\ result = <<>>
    /\ search_entries(WithoutSigilOnly(query), entries, limit,
                      use_regex, rapidfuzz, wseed).value # <<>>

\* the exact and the exclusion matcher both answer `hit` for the term
MatchersGive(t, name, full, hit) ==
    /\ _matches_exact_term(t, name, full) = hit
    /\ _matches_exclusion_term(t, name, full) = hit

\* C8 as stated: an exact or exclude term matches an entry exactly when the
\* four-case rule (starts with, ends with, equals, contains the remainder)
\* holds for the lowercased basename or the lowercased full path.
AnchoredRuleLiteral ==
    Called => \A t \in ExactTermsOf(query) \cup ExcludeTermsOf(query) :
                \A i \in 1..Len(entries) :
                    MatchersGive(t, lower(PathName(entries[i])), lower(entries[i]),
                                 LiteralHits(t, entries[i]))

\* C8, amended: the four-case rule is the matching of an exact or exclude term
\* whose remainder is not empty; a term whose remainder is empty matches no
\* entry.  A query of one exact term returns the entries the rule accepts.
AnchoredRule ==
    Called => \A t \in ExactTermsOf(query) \cup ExcludeTermsOf(query) :
                /\ \A i \in 1..Len(entries) :
                      MatchersGive(t, lower(PathName(entries[i])), lower(entries[i]),
                                   AnchoredHits(t, entries[i]))
                /\ (TokensOf(query) = {<<"'">> \o t} /\ limit >= Len(entries))
                      => Paths(result) = {entries[i] : i \in {k \in 1..Len(entries) :
                                                AnchoredHits(t, entries[k])}}

\* C8 happens: the query is one exact term with both anchors; the call returns
\* an entry whose basename equals the remainder and leaves out an entry that
\* contains the remainder without being equal to it.
AnchoredRuleWitness ==
    /\ Called /\ limit >= Len(entries)
    /\ \E t \in ExactTermsOf(query) :
          /\ TokensOf(query) = {<<"'">> \o t}
          /\ HasStart(t) /\ HasEnd(t)
          /\ \E i \in 1..Len(entries) :
                /\ lower(PathName(entries[i])) = Remainder(lower(t))
                /\ entries[i] \in Paths(result)
          /\ \E i \in 1..Len(entries) :
                /\ IsInfix(Remainder(lower(t)), lower(entries[i]))
                /\ entries[i] \notin Paths(result)

\* C9: in fuzzy mode an include term with ^ and/or $ accepts an entry exactly
\* when the stripped term is a substring or an ordered subsequence of the
\* basename or the full path and, for ^, its first character is the first
\* character of one of the two and, for $, its last character is the last
\* character of one of the two.  A query of one such term returns the
\* entries so accepted.
SoftAnchors ==
    (Called /\ ~use_regex) =>
        \A t \in {u \in IncludeTermsOf(query) : HasStart(u) \/ HasEnd(u)} :
            /\ \A i \in 1..Len(entries) :
                  _matches_include_term(t, lower(PathName(entries[i])), lower(entries[i]), FALSE)
                     = SoftHits(t, entries[i])
            /\ (TokensOf(query) = {t} /\ limit >= Len(entries))
                  => Paths(result) = {entries[i] : i \in {k \in 1..Len(entries) :
                                            SoftHits(t, entries[k])}}

\* C9 happens: the query is one include term "core$"; the call returns an
\* entry that does not end with the core, and leaves out an entry that
\* contains the core and ends with another character.
SoftAnchorsWitness ==
    /\ Called /\ ~use_regex /\ limit >= Len(entries)
    /\ \E t \in IncludeTermsOf(query) :
          /\ TokensOf(query) = {t} /\ HasEnd(t) /\ ~HasStart(t)
          /\ \E i \in 1..Len(entries) :
                /\ entries[i] \in Paths(result)
                /\ ~IsSuffix(Remainder(lower(t)), lower(entries[i]))
          /\ \E i \in 1..Len(entries) :
                /\ entries[i] \notin Paths(result)
                /\ IsInfix(Remainder(lower(t)), lower(entries[i]))

\* C10: in regex mode, when an include term of the query does not compile,
\* search_entries returns the empty list and raises nothing.
BadPatternMatchesNothing ==
    (Called /\ use_regex
       /\ \E t \in IncludeTermsOf(query) : re_compile(t).status # "ok")
        => result = <<>> /\ raised = "none"

\* C10 fails: a call in regex mode ended with an exception.
BadPatternRaises == Called /\ use_regex /\ raised = "OverflowError"


\* the basename of the path is the joined query of the latest call
NameIsQuery(path) == lower(PathName(path)) = lower(WithoutSigilOnly(query))

\* C11: for a query of include terms only, every surviving entry whose
\* lowercased basename is the lowercased joined query stands in the result
\* before every surviving entry whose basename is not, whatever the base
\* scores are.
NameMatchFirst ==
    (Called /\ ExactTermsOf(query) = {} /\ ExcludeTermsOf(query) = {}) =>
        /\ \A i \in 1..Len(result) : \A j \in 1..Len(result) :
              (NameIsQuery(result[j].path) /\ ~NameIsQuery(result[i].path)) => j < i
        /\ (\E i \in 1..Len(result) : ~NameIsQuery(result[i].path))
              => \A e \in Survivors : NameIsQuery(e) => e \in Paths(result)

\* C11 happens: without rapidfuzz, an entry named as the query stands before
\* an entry of another name whose base score is the higher of the two.
NameMatchFirstWitness ==
    /\ Called /\ ~rapidfuzz
    /\ ExactTermsOf(query) = {} /\ ExcludeTermsOf(query) = {}
    /\ \E i \in 1..Len(result) : \E j \in (i + 1)..Len(result) :
          /\ NameIsQuery(result[i].path)
          /\ ~NameIsQuery(result[j].path)
          /\ Higher(_score(lower(query), result[j].path), _score(lower(query), result[i].path))

IsExactToken(t) == Len(t) > 1 /\ t[1] = "'"

IsIncludeToken(t) == ~(Len(t) > 1 /\ t[1] \in {"'", "!"})

\* the exact terms of the query in their order, each as often as it is written
ExactList(s) ==
    [i \in 1..Len(SelectSeq(split(s), IsExactToken)) |->
        Tail(SelectSeq(split(s), IsExactToken)[i])]

\* the joined query: the include terms joined by blanks, else the first exact
\* term, lowercased; empty when the query has neither
JoinedQuery(s) ==
    IF SelectSeq(split(s), IsIncludeToken) # <<>>
    THEN lower(join(SelectSeq(split(s), IsIncludeToken)))
    ELSE IF ExactList(s) # <<>> THEN lower(ExactList(s)[1])
    ELSE <<>>

\* the score the scorer gives the path for the query of the latest call
BaseScore(path) == Scored(JoinedQuery(query), <<path>>, rapidfuzz, wseed)[1].score

\* the boost for the whole name, else for the whole path
WholeBoost(path) ==
    IF JoinedQuery(query) = <<>> THEN 0
    ELSE IF lower(PathName(path)) = JoinedQuery(query) THEN 1000
    ELSE IF lower(path) = JoinedQuery(query) THEN 900
    ELSE 0

\* how many exact terms of the query, counted as often as written, match the path
ExactMatches(path) ==
    Cardinality({i \in 1..Len(ExactList(query)) : AnchoredHits(ExactList(query)[i], path)})

\* C26: the score of every returned entry is its base score plus the boost of
\* the whole name when its basename is the joined query, or else the smaller
\* boost when its whole path is, plus one exact-term boost for each exact term
\* of the query that matches its basename or its path: k matching exact terms
\* add k boosts.
BoostsStack ==
    (Called /\ raised = "none") =>
        \A i \in 1..Len(result) :
           result[i].score =
              ScoreAdd(BaseScore(result[i].path),
                       WholeBoost(result[i].path) + 800 * ExactMatches(result[i].path))

\* C26 happens: an entry is returned that two exact terms of the query match,
\* with two exact-term boosts on its base score.
BoostsStackWitness ==
    /\ Called /\ raised = "none"
    /\ \E i \in 1..Len(result) :
          /\ ExactMatches(result[i].path) = 2
          /\ WholeBoost(result[i].path) = 0
          /\ result[i].score = ScoreAdd(BaseScore(result[i].path), 1600)

\* C26 happens: an entry is returned with the boost of the whole name and an
\* exact-term boost on its base score.
BoostsStackNameWitness ==
    /\ Called /\ raised = "none"
    /\ \E i \in 1..Len(result) :
          /\ ExactMatches(result[i].path) = 1
          /\ result[i].score = ScoreAdd(BaseScore(result[i].path), 1800)


(***************************************************************************)
(* The caller of the indexer: a tree on disk, and one call of build_index  *)
(* on it                                                                   *)
(***************************************************************************)

MaxLines == 2

FileA == << <<"r">>, <<"a">> >>

DirD == << <<"r">>, <<"d">> >>

FileF == << <<"r">>, <<"d">>, <<"f">> >>

LinkL == << <<"r">>, <<"l">> >>

Missing == << <<"r">>, <<"x">> >>

Outside == << <<"o">> >>

\* a line of one name longer than NAME_MAX
LongLine == [i \in 1..256 |-> "n"]

\* the lines of the manifests: relative and absolute paths, padded, blank,
\* comment, missing, too long
LinePool ==
    { <<"a">>, <<" ", "a", " ">>, <<"#", "a">>, <<>>, <<"d">>, <<"d", "/", "f">>, <<"l">>,
      <<"/", "o">>, <<"x">>, LongLine }

ManifestTexts == {JoinLines(ls) : ls \in UNION {[1..n -> LinePool] : n \in 0..MaxLines}}

\* where the link r/l points: nowhere (no link), a file, a directory, the
\* root above it, itself, a path that is not there
LinkTargets == {<<>>, FileA, DirD, RootDir, LinkL, Missing}

Extend(f, g) == [p \in DOMAIN f \cup DOMAIN g |-> IF p \in DOMAIN g THEN g[p] ELSE f[p]]

One(p, node) == [q \in {p} |-> node]

Tree(dread, lto) ==
    Extend([p \in {RootDir, DirD} |-> DirNode(IF p = DirD THEN dread ELSE "ok")],
           Extend([p \in {FileA, FileF, Outside} |-> FileNode(<<>>, "ok")],
                  IF lto = <<>> THEN <<>> ELSE One(LinkL, LinkNode(lto))))

Placements == {"none", "upper", "lower", "mixed", "upper_dir", "mixed_dir", "both"}

MixedCaseTxt == <<"F", "i", "l", "e", "l", "i", "s", "t", ".", "t", "x", "t">>

\* the tree with the manifest node placed under the root
Placed(f, placement, node) ==
    CASE placement = "none" -> f
      [] placement = "upper" -> Extend(f, One(Append(RootDir, FileListTxt), node))
      [] placement = "lower" -> Extend(f, One(Append(RootDir, filelist_txt), node))
      [] placement = "mixed" -> Extend(f, One(Append(RootDir, MixedCaseTxt), node))
      [] placement = "upper_dir" ->
            Extend(f, Extend(One(Append(RootDir, FileListTxt), DirNode("ok")),
                             One(Append(RootDir, filelist_txt), node)))
      [] placement = "mixed_dir" ->
            Extend(f, One(Append(RootDir, MixedCaseTxt), DirNode("ok")))
      [] placement = "both" ->
            Extend(f, Extend(One(Append(RootDir, FileListTxt), node),
                             One(Append(RootDir, filelist_txt),
                                 FileNode(<<"d", "\n">>, "ok"))))

\* manifests of every content on a readable tree
ManifestTrees ==
    { Placed(Tree("ok", lto), "upper", FileNode(text, "ok")) :
        lto \in {<<>>, FileA, LinkL}, text \in ManifestTexts }

\* trees of every shape, with a manifest of every placement, readable or not
ShapeTrees ==
    { Placed(Tree(dread, lto), placement, node) :
        dread \in {"ok", "PermissionError"}, lto \in LinkTargets,
        placement \in Placements,
        node \in { FileNode(<<"a", "\n">>, "ok"), FileNode(<<>>, "PermissionError"),
                   FileNode(<<>>, "UnicodeDecodeError") } }

DirF == << <<"r">>, <<"f">> >>

DeepLink == << <<"r">>, <<"f">>, <<"l">> >>

\* trees with a second directory r/f that holds a link: to itself, to a file
DeepTrees ==
    { Extend(Tree(dread, <<>>),
             Extend(One(DirF, DirNode("ok")), One(DeepLink, LinkNode(lto)))) :
        dread \in {"ok", "PermissionError"}, lto \in {DeepLink, FileA} }

Platforms == [reverse_listing : BOOLEAN, eloop_raises : BOOLEAN]

SearchIdle ==
    /\ entries = <<>>
    /\ rapidfuzz = FALSE
    /\ wseed = 0
    /\ query = <<>>
    /\ limit = 0
    /\ use_regex = FALSE
    /\ result = <<>>
    /\ raised = "none"
    /\ ncalls = 0
    /\ first = <<>>
    /\ varied = FALSE

IndexInit ==
    /\ SearchIdle
    /\ \/ fs \in ManifestTrees /\ platform \in {pf \in Platforms : ~pf.reverse_listing}
       \/ fs \in ShapeTrees \cup DeepTrees /\ platform \in Platforms
    /\ ixcall = NoCall
    /\ ixout = NoOut
    /\ walk = WalkIdle
    /\ win = NoWindow
    /\ observed = NotSeen
    /\ dispatch = NotDispatched
    /\ marks = NotMarked

\* the roots build_index is called with: the directory, and a regular file
Roots == {RootDir, FileA}

\* the walk the build ran, if it ran one
WalkOfBuild(f, pf, root, out) ==
    IF out.source = "walker" THEN _walk(f, pf, root) ELSE WalkIdle

\* one call build_index_with_metadata(root, use_filelist=u, include_files=fi,
\* include_dirs=di)
BuildIndex(root, u, fi, di) ==
    \E out \in {build_index_with_metadata(fs, platform, root, u, fi, di)} :
       /\ ixcall' = [op |-> "build_index", root |-> root, filelist |-> <<>>,
                     use_filelist |-> u, include_files |-> fi, include_dirs |-> di]
       /\ ixout' = out
       /\ walk' = WalkOfBuild(fs, platform, root, out)
       /\ UNCHANGED <<dispatch, marks, win, observed, fs, platform, entries, rapidfuzz, wseed, query, limit, use_regex,
                      result, raised, ncalls, first, varied>>

\* the regular files under the root that are named like a manifest
ManifestFiles ==
    {p \in DOMAIN fs : /\ Len(p) = 2 /\ fs[p].k = "file"
                       /\ p[2] \in {FileListTxt, filelist_txt, MixedCaseTxt}}

\* one call parse_filelist(filelist, root, include_files=fi, include_dirs=di)
ParseFilelist(filelist, fi, di) ==
    \E out \in {parse_filelist(fs, platform, filelist, RootDir, fi, di)} :
       /\ ixcall' = [op |-> "parse_filelist", root |-> RootDir, filelist |-> filelist,
                     use_filelist |-> TRUE, include_files |-> fi, include_dirs |-> di]
       /\ ixout' = IndexBuildResult(out.raised, out.entries, "filelist", filelist)
       /\ walk' = WalkIdle
       /\ UNCHANGED <<dispatch, marks, win, observed, fs, platform, entries, rapidfuzz, wseed, query, limit, use_regex,
                      result, raised, ncalls, first, varied>>

\* the three views of a walk
ViewOf(f, pf, root, view) ==
    CASE view = "walk_files" -> walk_files(f, pf, root)
      [] view = "walk_dirs" -> walk_dirs(f, pf, root)
      [] view = "walk_entries" -> walk_entries(f, pf, root, TRUE, TRUE)

\* one call walk_files(root), walk_dirs(root) or walk_entries(root)
WalkView(view) ==
    \E out \in {ViewOf(fs, platform, RootDir, view)} :
       /\ ixcall' = [op |-> view, root |-> RootDir, filelist |-> <<>>,
                     use_filelist |-> FALSE, include_files |-> view # "walk_dirs",
                     include_dirs |-> view # "walk_files"]
       /\ ixout' = IndexBuildResult(out.raised, out.entries, "walker", <<>>)
       /\ walk' = _walk(fs, platform, RootDir)
       /\ UNCHANGED <<dispatch, marks, win, observed, fs, platform, entries, rapidfuzz, wseed, query, limit, use_regex,
                      result, raised, ncalls, first, varied>>

\* one call find_filelist(root); no path recorded stands for None
FindFilelist(root) ==
    \E found \in {find_filelist(fs, platform, root)} :
       /\ ixcall' = [op |-> "find_filelist", root |-> root, filelist |-> <<>>,
                     use_filelist |-> TRUE, include_files |-> FALSE,
                     include_dirs |-> FALSE]
       /\ ixout' = IndexBuildResult(found.raised, <<>>, "none", found.path)
       /\ walk' = WalkIdle
       /\ UNCHANGED <<dispatch, marks, win, observed, fs, platform, entries, rapidfuzz, wseed, query, limit, use_regex,
                      result, raised, ncalls, first, varied>>

IndexNext ==
    ixcall.op = "none"
    /\ \/ \E root \in Roots, u \in BOOLEAN, fi \in BOOLEAN, di \in BOOLEAN :
             BuildIndex(root, u, fi, di)
       \/ \E filelist \in ManifestFiles, fi \in BOOLEAN, di \in BOOLEAN :
             ParseFilelist(filelist, fi, di)
       \/ \E view \in {"walk_files", "walk_dirs", "walk_entries"} : WalkView(view)
       \/ \E root \in Roots : FindFilelist(root)

SpecIndex == IndexInit /\ [][IndexNext]_vars


(***************************************************************************)
(* A manifest written from an entry list and read back, while another      *)
(* process deletes entries                                                 *)
(***************************************************************************)

MaxRoundEntries == 2

HashFile == << <<"r">>, <<"#", "a">> >>

BlankFile == << <<"r">>, <<" ", "a">> >>

BreakFile == << <<"r">>, <<"a", "\n", "d">> >>

\* a tree with files whose names start with "#", start with a blank, hold a
\* line break
RoundTree ==
    Extend(Tree("ok", <<>>),
           [p \in {HashFile, BlankFile, BreakFile} |-> FileNode(<<>>, "ok")])

RoundPool == {RootDir, FileA, DirD, FileF, Outside, HashFile, BlankFile, BreakFile}

\* the entry lists held: paths that exist, as the strings of their Path
RoundLists ==
    {[i \in 1..Len(ps) |-> PathStr(ps[i])] :
        ps \in UNION {[1..n -> RoundPool] : n \in 0..MaxRoundEntries}}

RoundInit ==
    /\ entries \in RoundLists
    /\ rapidfuzz = FALSE
    /\ wseed = 0
    /\ query = <<>>
    /\ limit = 0
    /\ use_regex = FALSE
    /\ result = <<>>
    /\ raised = "none"
    /\ ncalls = 0
    /\ first = <<>>
    /\ varied = FALSE
    /\ fs = RoundTree
    /\ platform = [reverse_listing |-> FALSE, eloop_raises |-> TRUE]
    /\ ixcall = NoCall
    /\ ixout = NoOut
    /\ walk = WalkIdle
    /\ win = NoWindow
    /\ observed = NotSeen
    /\ dispatch = NotDispatched
    /\ marks = NotMarked

\* the Path objects of the held entry list
PathsOf(es) == [i \in 1..Len(es) |-> PathParts(es[i])]

\* one call write_filelist(root, entries)
WriteFilelist ==
    ixcall.op = "none"
    /\ \E out \in {write_filelist(fs, platform, RootDir, PathsOf(entries))} :
          /\ fs' = out.fs
          /\ ixcall' = [op |-> "write_filelist", root |-> RootDir, filelist |-> out.path,
                        use_filelist |-> TRUE, include_files |-> TRUE,
                        include_dirs |-> TRUE]
          /\ ixout' = IndexBuildResult(out.raised, <<>>, "none", out.path)
          /\ UNCHANGED <<dispatch, marks, win, observed, platform, walk, entries, rapidfuzz, wseed, query, limit,
                         use_regex, result, raised, ncalls, first, varied>>

\* the tree without the node at p and without what is under it
Removed(f, p) == [q \in {q \in DOMAIN f : ~IsUnder(q, p)} |-> f[q]]

\* another process deletes an entry after the manifest was written
DeleteEntry(p) ==
    /\ ixcall.op = "write_filelist"
    /\ p \in DOMAIN fs /\ p # RootDir
    /\ fs' = Removed(fs, p)
    /\ UNCHANGED <<dispatch, marks, win, observed, platform, ixcall, ixout, walk, entries, rapidfuzz, wseed, query,
                   limit, use_regex, result, raised, ncalls, first, varied>>

\* find_filelist(root), then parse_filelist on the file found
ReadFound(f, pf, root, found) ==
    IF found.raised # "none" THEN IndexBuildResult(found.raised, <<>>, "none", <<>>)
    ELSE IF ~found.found THEN IndexBuildResult("none", <<>>, "none", <<>>)
    ELSE FromFilelist(parse_filelist(f, pf, found.path, root, TRUE, TRUE), found.path)

ReadBack ==
    ixcall.op = "write_filelist"
    /\ \E out \in {ReadFound(fs, platform, RootDir, find_filelist(fs, platform, RootDir))} :
          /\ ixcall' = [ixcall EXCEPT !.op = "read_back"]
          /\ ixout' = out
          /\ UNCHANGED <<dispatch, marks, win, observed, fs, platform, walk, entries, rapidfuzz, wseed, query, limit,
                         use_regex, result, raised, ncalls, first, varied>>

\* one call build_filelist_text(entries, root)
BuildFilelistText ==
    ixcall.op = "none"
    /\ \E out \in {build_filelist_text(fs, platform, PathsOf(entries), RootDir)} :
          /\ ixcall' = [ixcall EXCEPT !.op = "build_filelist_text", !.root = RootDir]
          /\ ixout' = [raised |-> out.raised, text |-> out.text]
          /\ UNCHANGED <<dispatch, marks, win, observed, fs, platform, walk, entries, rapidfuzz, wseed, query, limit,
                         use_regex, result, raised, ncalls, first, varied>>

RoundNext ==
    \/ WriteFilelist
    \/ BuildFilelistText
    \/ \E p \in {q \in RoundPool : PathStr(q) \in Range(entries)} : DeleteEntry(p)
    \/ ReadBack

SpecRoundTrip == RoundInit /\ [][RoundNext]_vars

(***************************************************************************)
(* A walk in steps, while another process deletes files and directories    *)
(***************************************************************************)

\* the tree at the start of the walk
RaceTree ==
    Extend(Tree("ok", <<>>),
           Extend(One(<< <<"r">>, <<"d">>, <<"d">> >>, DirNode("ok")),
                  [p \in { << <<"r">>, <<"d">>, <<"a">> >>,
                           << <<"r">>, <<"d">>, <<"d">>, <<"f">> >> } |->
                      FileNode(<<>>, "ok")]))

RaceInit ==
    /\ SearchIdle
    /\ fs = RaceTree
    /\ platform = [reverse_listing |-> FALSE, eloop_raises |-> TRUE]
    /\ ixcall = NoCall
    /\ ixout = NoOut
    /\ walk = WalkIdle
    /\ win = NoWindow
    /\ observed = NotSeen
    /\ dispatch = NotDispatched
    /\ marks = NotMarked

\* _walk(root) is called: the root is resolved and put on the stack
StartWalk ==
    /\ walk.status = "idle"
    /\ walk' = WalkStart(resolve(fs, RootDir, platform).path)
    /\ ixcall' = [op |-> "_walk", root |-> RootDir, filelist |-> <<>>,
                  use_filelist |-> FALSE, include_files |-> TRUE, include_dirs |-> TRUE]
    /\ UNCHANGED <<dispatch, marks, win, observed, fs, platform, ixout, entries, rapidfuzz, wseed, query, limit,
                   use_regex, result, raised, ncalls, first, varied>>

\* the walk takes its next step on the tree as it is now
WalkOn ==
    /\ walk.status = "run"
    /\ walk' = WalkStep(fs, platform, walk)
    /\ UNCHANGED <<dispatch, marks, win, observed, fs, platform, ixcall, ixout, entries, rapidfuzz, wseed, query,
                   limit, use_regex, result, raised, ncalls, first, varied>>

\* another process deletes a file or a directory that the walk has listed and
\* not yet resolved (it is pending) or not yet enumerated (it is on the stack)
DeleteListed(p) ==
    /\ walk.status = "run"
    /\ p \in DOMAIN fs
    /\ p \in Range(walk.pending) \cup Range(walk.stack)
    /\ p # RootDir
    /\ fs' = Removed(fs, p)
    /\ UNCHANGED <<dispatch, marks, win, observed, platform, ixcall, ixout, walk, entries, rapidfuzz, wseed, query,
                   limit, use_regex, result, raised, ncalls, first, varied>>

RaceNext ==
    \/ StartWalk
    \/ WalkOn
    \/ \E p \in DOMAIN RaceTree : DeleteListed(p)

SpecWalkRace == RaceInit /\ [][RaceNext]_vars

(***************************************************************************)
(* Reference notions for the indexer properties                            *)
(***************************************************************************)

\* build_index was called and returned a result
Built == ixcall.op = "build_index" /\ ixout.raised = "none"

\* build_index was called and raised an exception
BuildFailed == ixcall.op = "build_index" /\ ixout.raised # "none"

\* some element occurs at two places of the sequence
HasDuplicate(s) == \E i \in 1..Len(s) : \E j \in (i + 1)..Len(s) : s[i] = s[j]

\* the node at the path is a symbolic link
IsLink(p) == p \in DOMAIN fs /\ fs[p].k = "link"

\* parse_filelist was called and returned a list
Parsed == ixcall.op = "parse_filelist" /\ ixout.raised = "none"

\* the text of the manifest the latest call was given
ManifestText == fs[ixcall.filelist].text

\* the place of the k-th line break of the text; 0 before the first line and
\* one past the end after the last
BreakAt(t, k) ==
    IF k = 0 THEN 0
    ELSE IF k > Cardinality({i \in 1..Len(t) : t[i] = "\n"}) THEN Len(t) + 1
    ELSE CHOOSE i \in 1..Len(t) :
            t[i] = "\n" /\ Cardinality({j \in 1..i : t[j] = "\n"}) = k

\* the number of lines of the text: an end without a line break still ends a line
LineCount(t) ==
    Cardinality({i \in 1..Len(t) : t[i] = "\n"})
    + (IF t # <<>> /\ t[Len(t)] # "\n" THEN 1 ELSE 0)

\* the line without the blanks before and after it
Between(s, b, e) == [i \in 1..(e - b + 1) |-> s[b + i - 1]]

Trimmed(s) ==
    IF \A i \in 1..Len(s) : s[i] \in {" ", "\t"} THEN <<>>
    ELSE Between(s,
                 CHOOSE b \in 1..Len(s) :
                    s[b] \notin {" ", "\t"} /\ \A j \in 1..(b - 1) : s[j] \in {" ", "\t"},
                 CHOOSE e \in 1..Len(s) :
                    s[e] \notin {" ", "\t"} /\ \A j \in (e + 1)..Len(s) : s[j] \in {" ", "\t"})

\* the k-th line of the text without the blanks around it
Line(t, k) == Trimmed(Between(t, BreakAt(t, k - 1) + 1, BreakAt(t, k) - 1))

\* the line names a path: it is not blank and not a comment
IsPathLine(s) == s # <<>> /\ s[1] # "#"

\* the place of the k-th "/" of the line; as BreakAt
SlashAt(s, k) ==
    IF k = 0 THEN 0
    ELSE IF k > Cardinality({i \in 1..Len(s) : s[i] = "/"}) THEN Len(s) + 1
    ELSE CHOOSE i \in 1..Len(s) : s[i] = "/" /\ Cardinality({j \in 1..i : s[j] = "/"}) = k

\* the k-th run of the line between "/"
RunOf(s, k) == Between(s, SlashAt(s, k - 1) + 1, SlashAt(s, k) - 1)

\* the numbers of the runs of the line that are names
NameRuns(s) ==
    {k \in 1..(Cardinality({i \in 1..Len(s) : s[i] = "/"}) + 1) : RunOf(s, k) # <<>>}

\* the n-th member of a set of numbers, counted from the smallest
Nth(S, n) == CHOOSE k \in S : Cardinality({j \in S : j < k}) = n - 1

RunsInOrder(s, runs) == [n \in 1..Cardinality(runs) |-> RunOf(s, Nth(runs, n))]

\* the names of the line in their order
NamesOfLine(s) == RunsInOrder(s, NameRuns(s))

\* the path the line names: from "/" if the line starts there, else from the root
NamedPath(s, root) == IF s[1] = "/" THEN NamesOfLine(s) ELSE root \o NamesOfLine(s)

\* the canonical path of a path none of whose directories is a link: the
\* target of the link if the path is one
CanonicalOf(p) == IF IsLink(p) THEN fs[p].to ELSE p

\* the path leads to a file or a directory that is there
ExistsAt(p) == CanonicalOf(p) \in DOMAIN fs /\ ~IsLink(CanonicalOf(p))

\* what each line of the text names: nothing, or the canonical path of a
\* file or directory that is there
TargetOf(s, root) ==
    IF IsPathLine(s) /\ ExistsAt(NamedPath(s, root))
    THEN <<CanonicalOf(NamedPath(s, root))>> ELSE <<>>

Targets(t, root) == [k \in 1..LineCount(t) |-> TargetOf(Line(t, k), root)]

\* the lines that name a path no earlier line names
FirstListed(targets) ==
    {k \in 1..Len(targets) :
        targets[k] # <<>> /\ \A j \in 1..(k - 1) : targets[j] # targets[k]}

InOrder(targets, keep) == [n \in 1..Cardinality(keep) |-> targets[Nth(keep, n)][1]]

FirstTargets(targets) == InOrder(targets, FirstListed(targets))

\* what the manifest lists: the canonical paths its lines name, each at its
\* first place, in line order
ManifestList(t, root) == FirstTargets(Targets(t, root))

\* every member of the first sequence is one of the second
OnlyFrom(s, listed) == \A i \in 1..Len(s) : \E n \in 1..Len(listed) : s[i] = listed[n]

\* the regular files directly under the root whose name is filelist.txt in
\* some letter case
ManifestsUnder(root) ==
    {p \in DOMAIN fs :
        /\ Len(p) = Len(root) + 1 /\ \A i \in 1..Len(root) : p[i] = root[i]
        /\ fs[p].k = "file"
        /\ p[Len(p)] \in {FileListTxt, filelist_txt, MixedCaseTxt}}

\* the latest call of build_index asked for some kind of entry
SomeKindAsked == ixcall.include_files \/ ixcall.include_dirs

\* the latest call of build_index was to use a manifest and one is there
ManifestInUse == ixcall.use_filelist /\ ManifestsUnder(ixcall.root) # {}

\* the manifest of the root: FileList.txt, else filelist.txt, else the file
\* of another spelling
ManifestOf(root) ==
    IF Append(root, FileListTxt) \in ManifestsUnder(root) THEN Append(root, FileListTxt)
    ELSE IF Append(root, filelist_txt) \in ManifestsUnder(root)
    THEN Append(root, filelist_txt)
    ELSE CHOOSE p \in ManifestsUnder(root) : TRUE

\* the manifest in use cannot be opened or cannot be decoded
ManifestUnreadable ==
    ManifestInUse /\ fs[ManifestOf(ixcall.root)].read \in {"PermissionError", "UnicodeDecodeError"}

\* build_index was called on the directory r and ran a walk
Walked == ixcall.op = "build_index" /\ ixcall.root = RootDir /\ walk.status # "idle"

\* the node at the path is a directory itself, not a link to one
IsRealDir(p) == p \in DOMAIN fs /\ fs[p].k = "dir"

\* the real directories that can be reached from the root through real
\* directories that can be listed
ReachableDirs ==
    {p \in DOMAIN fs :
        /\ IsRealDir(p)
        /\ Len(p) >= Len(ixcall.root)
        /\ \A i \in 1..Len(ixcall.root) : p[i] = ixcall.root[i]
        /\ \A n \in Len(ixcall.root)..(Len(p) - 1) :
              /\ IsRealDir([i \in 1..n |-> p[i]])
              /\ fs[[i \in 1..n |-> p[i]]].read = "ok"}

\* how often the element occurs in the sequence
Occurrences(s, x) == Cardinality({i \in 1..Len(s) : s[i] = x})

\* the link r/l leads to a directory
LinkToDir == IsLink(LinkL) /\ IsRealDir(fs[LinkL].to)

\* the directories the walk tried to enumerate and could not: permission
\* denied, or not a directory
FailedListings ==
    {d \in Range(walk.visited) :
        \/ IsRealDir(d) /\ fs[d].read = "PermissionError"
        \/ d \in DOMAIN fs /\ fs[d].k = "file"}

\* the paths the walk has put out
Emitted == Range(walk.files) \cup Range(walk.dirs)

\* the children of the directory
ChildrenOf(d) ==
    {p \in DOMAIN fs : Len(p) = Len(d) + 1 /\ \A i \in 1..Len(d) : p[i] = d[i]}

\* a walk of the latest build_index call found a directory it could not list
ListingFailed == ixcall.op = "build_index" /\ walk.status # "idle" /\ FailedListings # {}

\* the latest indexer call returned a list of entries
GaveEntries == ixcall.op # "none" /\ ixout.raised = "none"

\* the path is a regular file of the tree
IsRegularFile(p) == p \in DOMAIN fs /\ fs[p].k = "file"

(***************************************************************************)
(* Properties of the indexer                                               *)
(***************************************************************************)

\* C12: no canonical path occurs twice in a result of build_index, from a
\* manifest or from a walk, for every tree, also one where a symbolic link
\* resolves to another entry of the tree.
NoPathTwice == Built => ~HasDuplicate(ixout.entries)

\* C12 fails: a walk of a tree where the link r/l resolves to another entry
\* of the tree returns the canonical path of that entry twice.
PathTwiceFromWalk ==
    /\ Built /\ ixout.source = "walker"
    /\ IsLink(LinkL) /\ fs[LinkL].to \in {FileA, DirD}
    /\ Cardinality({i \in 1..Len(ixout.entries) : ixout.entries[i] = fs[LinkL].to}) = 2


\* C13: parse_filelist returns, in line order, the canonical paths of the
\* manifest lines that are neither blank nor comments, relative lines taken
\* from the root, omitting without error every line whose path does not exist
\* and keeping the first occurrence of each canonical path.
ParseListsExisting ==
    (ixcall.op = "parse_filelist" /\ fs[ixcall.filelist].read = "ok"
        /\ ixcall.include_files /\ ixcall.include_dirs) =>
        /\ ixout.raised = "none"
        /\ ixout.entries = ManifestList(ManifestText, ixcall.root)

\* C13 fails: a manifest with a line whose path does not exist, because one
\* of its names is longer than a name can be, makes parse_filelist raise.
ParseRaisesOnMissing ==
    /\ ixcall.op = "parse_filelist" /\ fs[ixcall.filelist].read = "ok"
    /\ ixcall.include_files /\ ixcall.include_dirs
    /\ ixout.raised = "OSError"
    /\ \E k \in 1..LineCount(ManifestText) :
          /\ Line(ManifestText, k) = LongLine
          /\ ~ExistsAt(NamedPath(LongLine, ixcall.root))

\* what parse_filelist returns when it returns is the list of the manifest
ParseListsWhenReturned ==
    (Parsed /\ ixcall.include_files /\ ixcall.include_dirs) =>
        ixout.entries = ManifestList(ManifestText, ixcall.root)


\* C14: with both kind switches off build_index returns no entry with
\* provenance "none", whatever the manifest and the tree are; otherwise, with
\* a manifest in use, the provenance is "filelist", the path of the manifest
\* is recorded and every entry is one the manifest lists; otherwise the
\* provenance is "walker" and no manifest path is recorded.
ProvenanceDecided ==
    /\ (ixcall.op = "build_index" /\ ~SomeKindAsked) =>
          ixout = [raised |-> "none", entries |-> <<>>, source |-> "none",
                   filelist_path |-> <<>>]
    /\ (Built /\ SomeKindAsked /\ ManifestInUse) =>
          /\ ixout.source = "filelist"
          /\ ixout.filelist_path \in ManifestsUnder(ixcall.root)
          /\ OnlyFrom(ixout.entries,
                      ManifestList(fs[ixout.filelist_path].text, ixcall.root))
    /\ (Built /\ SomeKindAsked /\ ~ManifestInUse) =>
          ixout.source = "walker" /\ ixout.filelist_path = <<>>

\* C14 happens: a manifest that lists nothing gives a result without entries
\* and with provenance "filelist", though the tree has files.
ProvenanceDecidedWitness ==
    /\ Built /\ SomeKindAsked /\ ManifestInUse
    /\ ixout.source = "filelist" /\ ixout.entries = <<>>
    /\ ManifestList(fs[ixout.filelist_path].text, ixcall.root) = <<>>
    /\ FileA \in DOMAIN fs /\ ixcall.include_files


\* C15: when build_index is to use a manifest, finds one and cannot open or
\* decode it, the call raises the error of the read; it returns no result,
\* and none from a walk.
UnreadableManifestFails ==
    (ixcall.op = "build_index" /\ SomeKindAsked /\ ManifestUnreadable) =>
        /\ ixout.raised = fs[ManifestOf(ixcall.root)].read
        /\ ixout.source # "walker"
        /\ ixout.entries = <<>>

\* C15 happens: a build on a tree with files and a manifest that is not UTF-8
\* text raises UnicodeDecodeError.
UnreadableManifestWitness ==
    /\ ixcall.op = "build_index" /\ SomeKindAsked /\ ManifestUnreadable
    /\ ixout.raised = "UnicodeDecodeError"
    /\ FileA \in DOMAIN fs /\ ixcall.include_files


\* the paths of the held entry list that are there: the list minus the
\* entries that were deleted
EntriesLeft == {p \in RoundPool : PathStr(p) \in Range(entries) /\ p \in DOMAIN fs}

\* the manifest was written and read back
ReadBackDone == ixcall.op = "read_back"

\* C16: write_filelist(root, entries) followed by find_filelist(root) and
\* parse_filelist on the file found returns exactly the canonical paths of the
\* entries, whatever their names are, minus the entries deleted in between.
RoundTripExact ==
    ReadBackDone =>
        /\ ixout.raised = "none"
        /\ Range(ixout.entries) = EntriesLeft

\* C16 fails: the file r/#a, held as an entry and not deleted, is not among
\* the paths read back.
RoundTripLoses ==
    /\ ReadBackDone /\ ixout.raised = "none" /\ ixout.source = "filelist"
    /\ HashFile \in EntriesLeft
    /\ HashFile \notin Range(ixout.entries)


\* the round trip is exact for the entries whose names start with no "#" and
\* no blank and hold no line break
RoundTripPlainNames ==
    (ReadBackDone /\ \A p \in {HashFile, BlankFile, BreakFile} : PathStr(p) \notin Range(entries)) =>
        /\ ixout.raised = "none"
        /\ Range(ixout.entries) = EntriesLeft


\* the paths of the tree that were deleted during the walk
Vanished == DOMAIN RaceTree \ DOMAIN fs

\* the walk ended by raising an exception
WalkRaisedError == walk.status \notin {"idle", "run", "done"}

\* C17: when another process deletes a file or a directory that the walk has
\* listed and not yet resolved, classified or enumerated, the walk completes
\* without raising and the deleted entry is not in its output.  (A file is
\* deleted only before it is classified, so a deleted path among the files
\* was put there after it was deleted.)
WalkSkipsVanished ==
    /\ ~WalkRaisedError
    /\ walk.status = "done" => \A p \in Vanished : p \notin Range(walk.files)

\* C17 fails: the directory r/d is deleted while it is on the stack, and the
\* walk raises FileNotFoundError when it comes to enumerate it.
WalkRaisesOnVanished ==
    /\ walk.status = "FileNotFoundError"
    /\ DirD \in Vanished
    /\ DirD \in Range(walk.dirs)

\* a file deleted while it is pending is still put among the files
VanishedFileEmitted ==
    /\ walk.status = "done"
    /\ FileA \in Vanished
    /\ FileA \in Range(walk.files)


\* C18: the walk terminates on every tree, also with cycles of symbolic
\* links: every real directory reachable from the root is enumerated exactly
\* once, and a link to a directory is recorded as a directory while nothing
\* is enumerated through it.
WalkEnumeratesOnce ==
    Walked =>
        /\ walk.status = "done"
        /\ \A d \in ReachableDirs : Occurrences(walk.visited, d) = 1
        /\ \A i \in 1..Len(walk.visited) : walk.visited[i] \in ReachableDirs
        /\ LinkToDir => fs[LinkL].to \in Range(walk.dirs)

\* C18 fails: on a tree where the link r/l points to itself the walk ends
\* with RuntimeError, and the directory r/d is never enumerated.
WalkRaisesOnLoop ==
    /\ Walked
    /\ IsLink(LinkL) /\ fs[LinkL].to = LinkL
    /\ walk.status = "RuntimeError"
    /\ DirD \in ReachableDirs /\ DirD \notin Range(walk.visited)

\* on the trees without a link that points to itself, and where resolve() does
\* not raise on such a link, the walk is as C18 says
WalkEnumeratesOnceElse ==
    (Walked /\ ~(platform.eloop_raises
                 /\ \E p \in DOMAIN fs : IsLink(p) /\ fs[p].to = p)) =>
        /\ walk.status = "done"
        /\ \A d \in ReachableDirs : Occurrences(walk.visited, d) = 1
        /\ \A i \in 1..Len(walk.visited) : walk.visited[i] \in ReachableDirs
        /\ LinkToDir => fs[LinkL].to \in Range(walk.dirs)


\* C19: when the listing of a directory fails with permission denied or with
\* not-a-directory, the walk does not raise: nothing under that directory is
\* put out, the directory itself is among the directories (its parent
\* recorded it), and every child of every other directory that can be reached
\* is put out.
ListingFailureSwallowed ==
    ListingFailed =>
        /\ walk.status = "done"
        /\ \A d \in FailedListings :
              /\ \A e \in Emitted : \E i \in 1..Len(d) : i > Len(e) \/ e[i] # d[i] \/ e = d
              /\ d # ixcall.root => d \in Range(walk.dirs)
        /\ \A v \in ReachableDirs \ FailedListings :
              \A c \in ChildrenOf(v) : CanonicalOf(c) \in Emitted

\* C19 fails: the walk swallows the permission error of r/d and then raises
\* RuntimeError at the link r/f/l that points to itself.
ListingFailureThenRaise ==
    /\ ListingFailed
    /\ DirD \in FailedListings
    /\ walk.status = "RuntimeError"
    /\ IsLink(DeepLink) /\ fs[DeepLink].to = DeepLink

\* on the trees where no link points to itself, and where resolve() does not
\* raise on such a link, the walk is as C19 says
ListingFailureSwallowedElse ==
    (ListingFailed /\ ~(platform.eloop_raises
                        /\ \E p \in DOMAIN fs : IsLink(p) /\ fs[p].to = p)) =>
        /\ walk.status = "done"
        /\ \A d \in FailedListings :
              /\ \A e \in Emitted : \E i \in 1..Len(d) : i > Len(e) \/ e[i] # d[i] \/ e = d
              /\ d # ixcall.root => d \in Range(walk.dirs)
        /\ \A v \in ReachableDirs \ FailedListings :
              \A c \in ChildrenOf(v) : CanonicalOf(c) \in Emitted


\* C20: a result of build_index, from a manifest or from a walk, holds a
\* regular file only if include_files is true and a directory only if
\* include_dirs is true; walk_files gives the files of the walk and no
\* directory, walk_dirs its directories and no file, walk_entries the files
\* followed by the directories.
KindsAsAsked ==
    /\ GaveEntries =>
          \A i \in 1..Len(ixout.entries) :
             /\ IsRegularFile(ixout.entries[i]) => ixcall.include_files
             /\ IsRealDir(ixout.entries[i]) => ixcall.include_dirs
    /\ (GaveEntries /\ ixcall.op = "walk_files") => ixout.entries = walk.files
    /\ (GaveEntries /\ ixcall.op = "walk_dirs") => ixout.entries = walk.dirs
    /\ (GaveEntries /\ ixcall.op = "walk_entries") => ixout.entries = walk.files \o walk.dirs
    /\ (GaveEntries /\ ixout.source = "walker" /\ ixcall.op = "build_index") =>
          ixout.entries = (IF ixcall.include_files THEN walk.files ELSE <<>>)
                          \o (IF ixcall.include_dirs THEN walk.dirs ELSE <<>>)

\* C20 happens: a manifest lists the file r/a and the directory r/d, and the
\* build that asks for directories only returns r/d alone.
KindsAsAskedWitness ==
    /\ Built /\ ixout.source = "filelist"
    /\ ~ixcall.include_files /\ ixcall.include_dirs
    /\ FileA \in Range(ManifestList(fs[ixout.filelist_path].text, ixcall.root))
    /\ DirD \in Range(ManifestList(fs[ixout.filelist_path].text, ixcall.root))
    /\ ixout.entries = <<DirD>>

\* C20 happens on a walk: the combined view of a tree with files and
\* directories is returned
KindsOfWalkWitness ==
    /\ GaveEntries /\ ixcall.op = "walk_entries"
    /\ walk.files # <<>> /\ walk.dirs # <<>>


\* the string of the root directory r
RootStr == <<"/", "r">>

\* the line an entry is exported as: its path relative to the root if it lies
\* under the root ("." for the root itself), else its absolute path
ExportLine(e) ==
    IF e = RootStr THEN <<".">>
    ELSE IF Len(e) > Len(RootStr) + 1
            /\ \A i \in 1..Len(RootStr) : e[i] = RootStr[i]
            /\ e[Len(RootStr) + 1] = "/"
    THEN [i \in 1..(Len(e) - Len(RootStr) - 1) |-> e[Len(RootStr) + 1 + i]]
    ELSE e

\* the lines of the entries, each at its first place
ExportLines(es) == FirstTargets([k \in 1..Len(es) |-> <<ExportLine(es[k])>>])

\* the first n lines, each followed by a line break
RECURSIVE Terminated(_, _)
Terminated(ls, n) == IF n = 0 THEN <<>> ELSE Terminated(ls, n - 1) \o ls[n] \o <<"\n">>

\* build_filelist_text was called and returned a text
TextBuilt == ixcall.op = "build_filelist_text" /\ ixout.raised = "none"

\* C21: build_filelist_text writes each entry as its path relative to the
\* root when it lies under the root and as its absolute canonical path
\* otherwise, each line once at its first place in input order, every line
\* ended by a line break, and the empty string for no entry.
ExportedText ==
    ixcall.op = "build_filelist_text" =>
        /\ ixout.raised = "none"
        /\ ixout.text = Terminated(ExportLines(entries), Len(ExportLines(entries)))
        /\ entries = <<>> => ixout.text = <<>>

\* C21 happens: an entry under the root and one outside it are exported as a
\* relative and an absolute line.
ExportedTextWitness ==
    /\ TextBuilt
    /\ entries = <<PathStr(FileA), PathStr(Outside)>>
    /\ ixout.text = <<"a", "\n", "/", "o", "\n">>

\* an entry given twice is exported once
ExportedOnceWitness ==
    /\ TextBuilt
    /\ Len(entries) = 2 /\ entries[1] = entries[2]
    /\ Cardinality({i \in 1..Len(ixout.text) : ixout.text[i] = "\n"}) = 1


\* find_filelist was called and returned
Found == ixcall.op = "find_filelist" /\ ixout.raised = "none"

\* C22: find_filelist returns root/FileList.txt whenever that is a regular
\* file, whatever other spellings exist; else root/filelist.txt when that is
\* a regular file; else a regular file directly under the root whose
\* lowercased name is filelist.txt; it returns None exactly when the root has
\* no such file, and never a directory.
FindPrefers ==
    /\ (ixcall.op = "find_filelist" /\ IsRealDir(ixcall.root)
           /\ fs[ixcall.root].read = "ok") => ixout.raised = "none"
    /\ Found =>
          /\ Append(ixcall.root, FileListTxt) \in ManifestsUnder(ixcall.root) =>
                ixout.filelist_path = Append(ixcall.root, FileListTxt)
          /\ (Append(ixcall.root, FileListTxt) \notin ManifestsUnder(ixcall.root)
                /\ Append(ixcall.root, filelist_txt) \in ManifestsUnder(ixcall.root)) =>
                ixout.filelist_path = Append(ixcall.root, filelist_txt)
          /\ ManifestsUnder(ixcall.root) # {} =>
                ixout.filelist_path \in ManifestsUnder(ixcall.root)
          /\ ManifestsUnder(ixcall.root) = {} <=> ixout.filelist_path = <<>>
          /\ ~IsRealDir(ixout.filelist_path)

\* C22 happens: on a root without FileList.txt and filelist.txt the regular
\* file Filelist.txt is returned.
FindPrefersWitness ==
    /\ Found
    /\ Append(ixcall.root, FileListTxt) \notin DOMAIN fs
    /\ Append(ixcall.root, filelist_txt) \notin DOMAIN fs
    /\ ixout.filelist_path = Append(ixcall.root, MixedCaseTxt)


(***************************************************************************)
(* SpecGui: one session of the main window.  The window starts as          *)
(* __init__ leaves it, the first _refresh_index made; then the user clicks *)
(* and types, the timer expires, and files come and go between handlers.   *)
(***************************************************************************)

MaxBurst == 3
MaxCreated == 1
ShownLimit == 2

\* the trees of the session: the full tree without a manifest, with a manifest
\* that lists r/d, with a manifest that cannot be read
GuiTrees ==
    { Tree("ok", <<>>),
      Placed(Tree("ok", <<>>), "upper", FileNode(<<"d", "\n">>, "ok")),
      Placed(Tree("ok", <<>>), "upper", FileNode(<<>>, "PermissionError")) }

\* --root of the command line: a directory, or a regular file
StartRoots == {RootDir, DirD, FileA}

\* the directories the dialog of Browse... can give; <<>> when it is cancelled
BrowseChoices == {<<>>, RootDir, DirD}

\* the texts of the query field: none, one that matches, and a pattern whose
\* repeat count overflows
QueryTexts ==
    { <<>>, <<"a">>,
      <<"a", "{", "4", "2", "9", "4", "9", "6", "7", "2", "9", "5", "}">> }

GuiInit ==
    /\ SearchIdle
    /\ fs \in GuiTrees
    /\ platform = [reverse_listing |-> FALSE, eloop_raises |-> TRUE]
    /\ ixcall = NoCall
    /\ ixout = NoOut
    /\ walk = WalkIdle
    /\ dispatch = NotDispatched
    /\ marks = NotMarked
    /\ \E root \in StartRoots, text \in {<<>>, <<"a">>} :
          \E st \in {_refresh_index(fs, platform, MainWindow(root, ShownLimit, text), <<>>)} :
             /\ win = st.w
             /\ observed = Observe(NotSeen, st.calls)

\* a handler has run: the window it leaves, the calls it made; the observer
\* starts each handler with no rebuild seen
Handled(st) ==
    /\ win' = st.w
    /\ observed' = Observe([observed EXCEPT !.rebuild = "none", !.replaced = FALSE, !.rechecked = FALSE],
                           st.calls)
    /\ UNCHANGED <<dispatch, marks, platform, ixcall, ixout, walk, entries, rapidfuzz, wseed, query, limit,
                   use_regex, result, raised, ncalls, first, varied, fs>>

\* the Refresh Index button
RefreshClicked ==
    \E st \in {_refresh_index(fs, platform, win, <<>>)} : Handled(st)

\* the Use FileList box
UseFilelistToggled ==
    \E st \in {_refresh_index(fs, platform,
                              [win EXCEPT !.use_filelist_check = ~@], <<>>)} :
       Handled(st)

\* the user clicks the Files box or the Folders box
Clicked(w, box) ==
    IF box = "include_files_check" THEN [w EXCEPT !.include_files_check = ~@]
    ELSE [w EXCEPT !.include_dirs_check = ~@]

TypeToggled(box) ==
    \E st \in {_on_type_toggle_changed(fs, platform, Clicked(win, box), box, <<>>)} :
       Handled(st)

\* the Browse... button
RootBrowsed(selected) ==
    \E st \in {_browse_root(fs, platform, win, selected, <<>>)} :
       Handled(st)

\* the Create File List button
FileListCreated ==
    /\ observed.created < MaxCreated
    /\ \E st \in {_create_filelist(fs, platform, win, <<>>)} :
          /\ win' = st.w
          /\ observed' = Observe([observed EXCEPT !.rebuild = "none", !.replaced = FALSE, !.rechecked = FALSE,
                                                  !.created = @ + 1],
                                 st.calls)
          /\ fs' = st.fs
          /\ UNCHANGED <<dispatch, marks, platform, ixcall, ixout, walk, entries, rapidfuzz, wseed, query,
                         limit, use_regex, result, raised, ncalls, first, varied>>

\* one more change of the burst; a change that finds the timer stopped starts
\* a burst
Changed(o, active) ==
    IF active THEN [o EXCEPT !.changes = @ + 1]
    ELSE [o EXCEPT !.changes = 1, !.fired = 0]

\* a change of the query text (textChanged)
QueryEdited(text) ==
    /\ text # win.query_input
    /\ win.query_timer => observed.changes < MaxBurst
    /\ win' = _schedule_search([win EXCEPT !.query_input = text])
    /\ observed' = Changed([observed EXCEPT !.rebuild = "none", !.replaced = FALSE, !.rechecked = FALSE],
                           win.query_timer)
    /\ UNCHANGED <<dispatch, marks, fs, platform, ixcall, ixout, walk, entries, rapidfuzz,
                   wseed, query, limit, use_regex, result, raised, ncalls, first, varied>>

\* the Regex box
RegexToggled ==
    /\ win.query_timer => observed.changes < MaxBurst
    /\ win' = _schedule_search([win EXCEPT !.use_regex_check = ~@])
    /\ observed' = Changed([observed EXCEPT !.rebuild = "none", !.replaced = FALSE, !.rechecked = FALSE],
                           win.query_timer)
    /\ UNCHANGED <<dispatch, marks, fs, platform, ixcall, ixout, walk, entries, rapidfuzz,
                   wseed, query, limit, use_regex, result, raised, ncalls, first, varied>>

\* the timer expires: it stops and _update_results runs as its slot; an
\* exception leaves the slot and the window stays as it was
TimerExpired ==
    /\ win.query_timer
    /\ \E st \in {_update_results(fs, platform, [win EXCEPT !.query_timer = FALSE],
                                  "query_timer", <<>>)} :
          Handled(st)

\* files and manifests come and go between two handlers
FilesChanged ==
    /\ fs' \in GuiTrees \ {fs}
    /\ observed' = [observed EXCEPT !.rebuild = "none", !.replaced = FALSE, !.rechecked = FALSE]
    /\ UNCHANGED <<dispatch, marks, win, platform, ixcall, ixout, walk, entries, rapidfuzz,
                   wseed, query, limit, use_regex, result, raised, ncalls, first, varied>>

\* the handlers that rebuild the index, on a query that stays as it is
GuiNext ==
    \/ RefreshClicked
    \/ UseFilelistToggled
    \/ \E box \in {"include_files_check", "include_dirs_check"} : TypeToggled(box)
    \/ \E selected \in BrowseChoices : RootBrowsed(selected)
    \/ FileListCreated
    \/ FilesChanged

SpecGui == GuiInit /\ [][GuiNext]_vars

\* the handlers of the query field and the Regex box, the timer, and the
\* handlers that change the entry list under a pending search
TypingNext ==
    \/ \E text \in QueryTexts : QueryEdited(text)
    \/ RegexToggled
    \/ TimerExpired
    \/ RefreshClicked
    \/ \E box \in {"include_files_check", "include_dirs_check"} : TypeToggled(box)

SpecGuiTyping == GuiInit /\ [][TypingNext]_vars

\* the event loop runs the slot of a timer that has expired
SpecGuiLive == SpecGuiTyping /\ WF_vars(TimerExpired)


(***************************************************************************)
(* SpecDispatch: calls of execute_or_open, one selected path after another *)
(***************************************************************************)

\* the platforms: sys.platform is win32, darwin or linux
SysPlatforms ==
    { <<"w", "i", "n", "3", "2">>, <<"d", "a", "r", "w", "i", "n">>,
      <<"l", "i", "n", "u", "x">> }

\* what the calls on a selected path answer
DispatchPaths ==
    [is_dir : BOOLEAN,
     suffix : { <<>>, <<".", "e", "x", "e">>, <<".", "b", "A", "t">>, <<".", "t", "x", "t">> },
     x_ok : BOOLEAN]

\* what subprocess.Popen([str(path)]) does: it starts the process, or raises an
\* OSError, which carries a winerror on Windows only (0 stands for no
\* winerror), or raises another exception
PopenOutcomes(sys_platform) ==
    IF startswith(sys_platform, <<"w", "i", "n">>)
    THEN { [raised |-> "none", winerror |-> 0], [raised |-> "OSError", winerror |-> 193],
           [raised |-> "OSError", winerror |-> 5], [raised |-> "OSError", winerror |-> 2],
           [raised |-> "ValueError", winerror |-> 0] }
    ELSE { [raised |-> "none", winerror |-> 0], [raised |-> "OSError", winerror |-> 0],
           [raised |-> "ValueError", winerror |-> 0] }

\* what the default opener does
OpenerOutcomes == {"none", "OSError"}

DispatchInit == SearchIdle /\ IndexIdle

\* one call execute_or_open(path)
ExecuteOrOpen(path, sys_platform, popen, opener) ==
    /\ dispatch' = [called |-> TRUE, path |-> path, sys_platform |-> sys_platform,
                    popen |-> popen, opener |-> opener,
                    did |-> execute_or_open(path, sys_platform, popen, opener)]
    /\ UNCHANGED <<marks, win, observed, fs, platform, ixcall, ixout, walk, entries,
                   rapidfuzz, wseed, query, limit, use_regex, result, raised, ncalls,
                   first, varied>>

DispatchNext ==
    \E path \in DispatchPaths, sys_platform \in SysPlatforms, opener \in OpenerOutcomes :
       \E popen \in PopenOutcomes(sys_platform) :
          ExecuteOrOpen(path, sys_platform, popen, opener)

SpecDispatch == DispatchInit /\ [][DispatchNext]_vars

\* the entry is one that is launched: on Windows by its suffix, elsewhere by
\* its execute permission; never a directory
Launchable(path, sys_platform) ==
    /\ ~path.is_dir
    /\ IF sys_platform = <<"w", "i", "n", "3", "2">>
       THEN path.suffix \in { <<".", "e", "x", "e">>, <<".", "b", "A", "t">> }
       ELSE path.x_ok

\* the direct launch failed with the launch-denied code
LaunchDenied == dispatch.popen.raised = "OSError" /\ dispatch.popen.winerror = 193

\* C24: execute_or_open launches an entry classified execute once; when the
\* launch fails with winerror 193 it calls the default opener once and what
\* the opener does is the outcome; any other failure of the launch leaves the
\* call without the opener being called; an entry classified open, which
\* every directory and every file that is not launchable is, goes to the
\* opener and is never launched.
LaunchOnceThenOpen ==
    dispatch.called =>
       /\ dispatch.did.action = (IF Launchable(dispatch.path, dispatch.sys_platform)
                                 THEN "execute" ELSE "open")
       /\ dispatch.did.action = "execute" =>
             /\ dispatch.did.popen_calls = 1
             /\ LaunchDenied =>
                   dispatch.did.default_calls = 1 /\ dispatch.did.raised = dispatch.opener
             /\ ~LaunchDenied =>
                   /\ dispatch.did.default_calls = 0
                   /\ dispatch.did.raised = dispatch.popen.raised
       /\ dispatch.did.action = "open" =>
             /\ dispatch.did.popen_calls = 0
             /\ dispatch.did.default_calls = 1
             /\ dispatch.did.raised = dispatch.opener

\* C24 happens: the launch of an .exe was denied with winerror 193 and the
\* default opener was called once.
LaunchOnceThenOpenWitness ==
    /\ dispatch.called
    /\ dispatch.did.action = "execute"
    /\ LaunchDenied
    /\ dispatch.did.popen_calls = 1
    /\ dispatch.did.default_calls = 1

\* C24 happens: a launch failed with another code and the failure left the call.
LaunchFailurePropagatesWitness ==
    /\ dispatch.called
    /\ dispatch.popen.raised = "OSError"
    /\ ~LaunchDenied
    /\ dispatch.did.raised = "OSError"
    /\ dispatch.did.default_calls = 0

(***************************************************************************)
(* SpecMarks: calls of _find_match_positions on texts and terms            *)
(***************************************************************************)

MaxTextLen == 3
MaxTermLen == 2

\* the alphabet of the texts and terms: two letters, a capital, and the
\* capital whose lowercase is two characters
MarkLetters == {"a", "b", "A", DottedCapital}

MarkTexts == UNION {[1..n -> MarkLetters] : n \in 0..MaxTextLen}

MarkTerms == UNION {[1..n -> MarkLetters] : n \in 0..MaxTermLen}

MarksInit == SearchIdle /\ IndexIdle

\* one call _find_match_positions(text, term)
FindMatchPositions(text, term) ==
    /\ marks' = [called |-> TRUE, text |-> text, term |-> term,
                 positions |-> _find_match_positions(text, term)]
    /\ UNCHANGED <<dispatch, win, observed, fs, platform, ixcall, ixout, walk, entries,
                   rapidfuzz, wseed, query, limit, use_regex, result, raised, ncalls,
                   first, varied>>

\* a single call, over every text and term of the pools
MarksNext ==
    ~marks.called /\ \E text \in MarkTexts, term \in MarkTerms : FindMatchPositions(text, term)

SpecMarks == MarksInit /\ [][MarksNext]_vars

\* the two characters are the same letter, case aside
SameLetter(c, d) == lower(<<c>>) = lower(<<d>>)

\* the term stands in the text at the index i (counted from 0), case aside
StandsAt(text, term, i) ==
    /\ i + Len(term) <= Len(text)
    /\ \A k \in 1..Len(term) : SameLetter(text[i + k], term[k])

\* the ways to find the letters of the term in the text, in order: the indexes
\* (counted from 0) of the letters taken
Embeddings(text, term) ==
    {g \in [1..Len(term) -> 0..(Len(text) - 1)] :
        /\ \A k \in 1..Len(term) : SameLetter(text[g[k] + 1], term[k])
        /\ \A k \in 1..(Len(term) - 1) : g[k] < g[k + 1]}

\* the embedding that takes each letter as early as it can
Greedy(text, term) ==
    CHOOSE g \in Embeddings(text, term) :
       \A h \in Embeddings(text, term) : \A k \in 1..Len(term) : g[k] <= h[k]

\* the positions the rule gives: the first place the term stands at, else the
\* greedy embedding, else none
RulePositions(text, term) ==
    IF \E i \in 0..Len(text) : StandsAt(text, term, i)
    THEN LET i0 == CHOOSE i \in 0..Len(text) :
                      StandsAt(text, term, i) /\ \A j \in 0..(i - 1) : ~StandsAt(text, term, j)
         IN  i0..(i0 + Len(term) - 1)
    ELSE IF Embeddings(text, term) # {}
    THEN {Greedy(text, term)[k] : k \in 1..Len(term)}
    ELSE {}

\* C25: _find_match_positions gives, case aside, the index range of the first
\* occurrence of the term in the text, else the indexes of the greedy
\* subsequence scan when the whole term is consumed, else the empty set: the
\* result is empty or holds exactly len(term) indexes of the text.
PositionsSpellTerm ==
    marks.called =>
       /\ marks.positions = RulePositions(marks.text, marks.term)
       /\ \/ marks.positions = {}
          \/ /\ Cardinality(marks.positions) = Len(marks.term)
             /\ marks.positions \subseteq 0..(Len(marks.text) - 1)

\* C25 fails: a position past the end of the text is returned, as for the text
\* of U+0130 and b with the term b, where {2} is returned.
PositionPastText ==
    /\ marks.called
    /\ marks.text = <<DottedCapital, "b">>
    /\ marks.term = <<"b">>
    /\ marks.positions = {2}

\* on texts and terms whose lowercase has their length, the rule of C25 holds
PositionsSpellTermElse ==
    (/\ marks.called
     /\ \A i \in 1..Len(marks.text) : marks.text[i] # DottedCapital
     /\ \A i \in 1..Len(marks.term) : marks.term[i] # DottedCapital) =>
       /\ marks.positions = RulePositions(marks.text, marks.term)
       /\ \/ marks.positions = {}
          \/ /\ Cardinality(marks.positions) = Len(marks.term)
             /\ marks.positions \subseteq 0..(Len(marks.text) - 1)

(***************************************************************************)
(* Claims about the main window                                            *)
(***************************************************************************)

\* the latest handler rebuilt the index
RebuildReturned == observed.rebuild = "returned"

RebuildRaised == observed.rebuild = "raised"

\* C23: whatever handlers have rebuilt the index (Refresh Index, Browse...,
\* Use FileList, Files, Folders, Create File List), the window holds the
\* result of the latest build that returned and the entry list of that
\* result, nothing else; after a build that raised it holds what it held.
HeldBuilt == win.index = observed.built /\ win.entries = observed.built.entries

HeldRetained ==
    (observed'.rebuild # "returned") => (win'.index = win.index /\ win'.entries = win.entries)

HeldIsLatestBuild == []HeldBuilt /\ [][HeldRetained]_vars

\* C23 happens: a rebuild has returned a list that is not empty and lacks an
\* entry of the list held before.
HeldIsLatestBuildWitness ==
    /\ RebuildReturned
    /\ observed.replaced
    /\ win.entries = observed.built.entries

\* C23 happens: a rebuild has raised and the list held before is not empty.
HeldRetainedWitness == RebuildRaised /\ win.entries # <<>> /\ win.index.source # "none"


\* C27: after every handler at least one of the boxes Files and Folders is
\* checked, no rebuild has been called with include_files and include_dirs
\* both false, and once a build has returned the index held has a provenance
\* other than none.
OneTypeChecked ==
    /\ win.include_files_check \/ win.include_dirs_check
    /\ ~observed.both_off
    /\ observed.succeeded => win.index.source # "none"

\* C27 as stated: the index never has the provenance none after the initial
\* build.
OneTypeCheckedLiteral ==
    /\ win.include_files_check \/ win.include_dirs_check
    /\ ~observed.both_off
    /\ win.index.source # "none"

\* C27 happens: the user unchecked the only box that was checked, Folders; the
\* handler checked Files again and the index was rebuilt from files alone.
OneTypeCheckedWitness ==
    /\ observed.rechecked
    /\ win.include_files_check /\ ~win.include_dirs_check
    /\ RebuildReturned
    /\ win.index.source = "walker"

\* C27 as stated fails: the initial build raised and the window holds the
\* index it was constructed with.
InitialBuildRaised == ~observed.succeeded /\ win.index.source = "none" /\ win.root # <<>>


\* the results shown were computed from the query text, the Regex box and the
\* entry list the window holds now
ShownCurrent ==
    observed.shown = << [query |-> win.query_input, use_regex |-> win.use_regex_check,
                         entries |-> win.entries] >>

\* a burst of changes has caused no recomputation while the timer runs, and
\* one when the timer has stopped
OncePerBurst ==
    /\ win.query_timer => observed.fired = 0
    /\ (~win.query_timer /\ observed.changes > 0) => observed.fired = 1

\* C28: a change of the query text or of the Regex box starts the single-shot
\* timer again and searches nothing; a burst of changes causes one
\* recomputation, and once the timer has stopped after the last change the
\* results shown are those of the final query text and the entry list held.
Debounced ==
    /\ OncePerBurst
    /\ (~win.query_timer /\ observed.changes > 0) => ShownCurrent

\* C28 fails: the timer has expired on a pattern whose repeat count overflows,
\* _update_results raised in the slot, and the results shown are those of an
\* earlier query.
RecomputationRaised ==
    /\ ~win.query_timer
    /\ observed.changes > 0
    /\ observed.fired = 1
    /\ ~ShownCurrent
    /\ win.use_regex_check
    /\ ResultsFor(fs, platform, win, strip(win.query_input)).raised = "OverflowError"

\* but for a recomputation that raises, the results shown once the timer has
\* stopped are those of the final query text and the entry list held
DebouncedUnlessRaised ==
    /\ OncePerBurst
    /\ (~win.query_timer /\ observed.changes > 0) =>
          \/ ShownCurrent
          \/ ResultsFor(fs, platform, win, strip(win.query_input)).raised # "none"

\* a burst of three changes has caused one recomputation
OncePerBurstWitness ==
    ~win.query_timer /\ observed.changes = 3 /\ observed.fired = 1 /\ ShownCurrent

====
